---- MODULE Spec2Model ----
(***************************************************************************)
(* GNSSSignalSimGUI: the configuration data model and its (de)serializer   *)
(* (core/config/models.py) and the time editing tab that writes            *)
(* TimeConfig (gui/tabs/ephemeris_time_tab.py).                            *)
(*                                                                         *)
(* Python values are tagged records, so that values of different Python    *)
(* types can be compared: None, str, number, bool, enum member, list,      *)
(* dict (an ordered sequence of key/value items), dataclass instance, and  *)
(* a raised exception.  Numbers are carried as their literals: neither     *)
(* to_dict nor from_dict computes with them.                               *)
(***************************************************************************)
EXTENDS Integers, Sequences, FiniteSets, TLC

VARIABLES
  config,            \* the document's GNSSSignalSimConfig (MainWindow.config)
  data,              \* the mapping last produced by to_dict / read from a file
  result,            \* what from_dict(data) returned or raised
  op,                \* the operation that ran last
  file_path,         \* the file last chosen in the load dialog
  time_type_combo,   \* EphemerisTimeTab widgets
  datetime_edit,
  week_spin,
  second_spin,
  leap_year_spin,
  day_spin,
  call,              \* the TimeConverter function last called, with its arguments
  returned,          \* what that call returned or raised
  parser,            \* a RinexParser: its header, records and validity range
  heap,              \* the GNSSSignalSimConfig objects alive, by identity
  window,            \* MainWindow: config, the tabs' config, current_file, is_modified
  disk,              \* the files written: documents and templates/{name}.json
  workflow_manager,  \* WorkflowManager: step_statuses and validation_callbacks
  integration        \* IFDataGenIntegration: its worker and what it emitted

vars == << config, data, result, op, file_path, time_type_combo, datetime_edit,
           week_spin, second_spin, leap_year_spin, day_spin, call, returned, parser,
           heap, window, disk, workflow_manager, integration >>

----------------------------------------------------------------------------
(* Python values *)

None == [k |-> "none"]
Str(s) == [k |-> "str", s |-> s]
Num(lit) == [k |-> "num", lit |-> lit]
Bool(b) == [k |-> "bool", b |-> b]
Member(e, m) == [k |-> "enum", e |-> e, m |-> m]
List(l) == [k |-> "list", l |-> l]
Item(key, v) == [key |-> key, v |-> v]
Dict(items) == [k |-> "dict", items |-> items]
Obj(cls, f) == [k |-> "obj", cls |-> cls, f |-> f]
Raise(exc) == [k |-> "raise", exc |-> exc]

(* bool(v) of a Python value *)
truthy(v) ==
  CASE v.k = "none" -> FALSE
    [] v.k = "bool" -> v.b
    [] v.k = "str" -> v.s # ""
    [] v.k = "num" -> v.lit \notin {"0", "0.0"}
    [] v.k = "list" -> v.l # << >>
    [] v.k = "dict" -> v.items # << >>
    [] OTHER -> TRUE

----------------------------------------------------------------------------
(* Enum classes: member name -> wire value *)

EnumMembers ==
  [ RinexVersion |-> [VERSION_2 |-> "2", VERSION_3 |-> "3", VERSION_4 |-> "4"],
    SatelliteSystem |-> [GPS |-> "G", GLONASS |-> "R", GALILEO |-> "E",
                         BEIDOU |-> "C", QZSS |-> "J", IRNSS |-> "I",
                         SBAS |-> "S"],
    TimeType |-> [UTC |-> "UTC", GPS |-> "GPS", GLONASS |-> "GLONASS",
                  BDS |-> "BDS", GALILEO |-> "Galileo"],
    PositionType |-> [LLA |-> "LLA", ECEF |-> "ECEF"],
    VelocityType |-> [SCU |-> "SCU", ENU |-> "ENU", ECEF |-> "ECEF"],
    TrajectoryType |-> [CONST |-> "Const", CONST_ACC |-> "ConstAcc",
                        VERTICAL_ACC |-> "VerticalAcc", JERK |-> "Jerk",
                        HORIZONTAL_TURN |-> "HorizontalTurn"],
    EphemerisType |-> [RINEX |-> "RINEX", YUMA |-> "YUMA", XML |-> "XML"],
    OutputType |-> [IF_DATA |-> "IFdata", POSITION |-> "position",
                    OBSERVATION |-> "observation"],
    OutputFormat |-> [IQ8 |-> "IQ8", IQ4 |-> "IQ4", RINEX3 |-> "RINEX3",
                      KML |-> "KML", NMEA0183 |-> "NMEA0183", ECEF |-> "ECEF",
                      LLA |-> "LLA"],
    ConstellationType |-> [GPS |-> "GPS", BDS |-> "BDS", GALILEO |-> "Galileo",
                           GLONASS |-> "GLONASS", QZSS |-> "QZSS",
                           IRNSS |-> "IRNSS"],
    TimeSystem |-> [UTC |-> "UTC", GPS |-> "GPS", GLONASS |-> "GLONASS",
                    BDS |-> "BDS", GALILEO |-> "Galileo"] ]

----------------------------------------------------------------------------
(* Dataclass fields: name, declared type, default.  The declared type is   *)
(* what from_dict inspects: a dataclass has __dataclass_fields__, an Enum  *)
(* has __members__, List[X] / Optional[X] / Union[X, ..] have __args__     *)
(* (first argument X), anything else is primitive.                         *)

TPrim == [t |-> "prim"]
TEnum(e) == [t |-> "enum", e |-> e]
TDc(cls) == [t |-> "dc", cls |-> cls]
TArgs(first) == [t |-> "args", first |-> first]

MISSING == [k |-> "missing"]                  \* a field without a default
Factory(cls) == [k |-> "factory", cls |-> cls]  \* field(default_factory=cls)
Field(name, type, default) == [name |-> name, type |-> type, default |-> default]

TimeConfig_fields ==
  << Field("type", TEnum("TimeType"), Member("TimeType", "UTC")),
     Field("year", TArgs(TPrim), None),
     Field("month", TArgs(TPrim), None),
     Field("day", TArgs(TPrim), None),
     Field("hour", TArgs(TPrim), None),
     Field("minute", TArgs(TPrim), None),
     Field("second", TArgs(TPrim), None),
     Field("week", TArgs(TPrim), None),
     Field("leap_year", TArgs(TPrim), None) >>

PositionConfig_fields ==
  << Field("type", TEnum("PositionType"), Member("PositionType", "LLA")),
     Field("format", TPrim, Str("d")),
     Field("longitude", TPrim, Num("0.0")),
     Field("latitude", TPrim, Num("0.0")),
     Field("altitude", TPrim, Num("0.0")),
     Field("x", TArgs(TPrim), None),
     Field("y", TArgs(TPrim), None),
     Field("z", TArgs(TPrim), None) >>

VelocityConfig_fields ==
  << Field("type", TEnum("VelocityType"), Member("VelocityType", "SCU")),
     Field("speed", TPrim, Num("0.0")),
     Field("course", TPrim, Num("0.0")),
     Field("up", TPrim, Num("0.0")),
     Field("east", TArgs(TPrim), None),
     Field("north", TArgs(TPrim), None),
     Field("x", TArgs(TPrim), None),
     Field("y", TArgs(TPrim), None),
     Field("z", TArgs(TPrim), None),
     Field("speed_unit", TPrim, Str("mps")),
     Field("angle_unit", TPrim, Str("degree")),
     Field("east_unit", TPrim, Str("mps")),
     Field("north_unit", TPrim, Str("mps")),
     Field("up_unit", TPrim, Str("mps")),
     Field("x_unit", TPrim, Str("mps")),
     Field("y_unit", TPrim, Str("mps")),
     Field("z_unit", TPrim, Str("mps")) >>

TrajectorySegment_fields ==
  << Field("type", TEnum("TrajectoryType"), Member("TrajectoryType", "CONST")),
     Field("time", TPrim, Num("1.0")),
     Field("acceleration", TArgs(TPrim), None),
     Field("speed", TArgs(TPrim), None),
     Field("rate", TArgs(TPrim), None),
     Field("angle", TArgs(TPrim), None),
     Field("radius", TArgs(TPrim), None) >>

TrajectoryConfig_fields ==
  << Field("name", TPrim, Str("Default Trajectory")),
     Field("init_position", TDc("PositionConfig"), Factory("PositionConfig")),
     Field("init_velocity", TDc("VelocityConfig"), Factory("VelocityConfig")),
     Field("trajectory_list", TArgs(TDc("TrajectorySegment")), Factory("list")) >>

EphemerisConfig_fields ==
  << Field("type", TEnum("EphemerisType"), Member("EphemerisType", "RINEX")),
     Field("name", TPrim, Str("")),
     Field("include", TPrim, Bool(TRUE)) >>

SystemSelect_fields ==
  << Field("system", TEnum("ConstellationType"), MISSING),
     Field("signal", TPrim, MISSING),
     Field("enable", TPrim, Bool(TRUE)) >>

SatelliteMask_fields ==
  << Field("system", TEnum("ConstellationType"), MISSING),
     Field("svid", TArgs(TPrim), MISSING) >>

OutputConfig_fields ==
  << Field("elevation_mask", TPrim, Num("5.0")),
     Field("mask_out", TArgs(TDc("SatelliteMask")), Factory("list")) >>

PowerConfig_fields ==
  << Field("unit", TPrim, Str("dBHz")),
     Field("value", TPrim, Num("45.0")) >>

SignalPowerValue_fields ==
  << Field("time", TPrim, MISSING),
     Field("unit", TPrim, MISSING),
     Field("value", TPrim, MISSING) >>

SignalPower_fields ==
  << Field("system", TEnum("ConstellationType"), MISSING),
     Field("svid", TArgs(TPrim), MISSING),
     Field("power_value", TArgs(TDc("SignalPowerValue")), Factory("list")) >>

SignalPowerConfig_fields ==
  << Field("noise_floor", TPrim, Num("-174.0")),
     Field("init_power", TDc("PowerConfig"), Factory("PowerConfig")),
     Field("elevation_adjust", TPrim, Bool(FALSE)),
     Field("signal_power", TArgs(TDc("SignalPower")), Factory("list")) >>

AlmanacConfig_fields ==
  << Field("system", TEnum("ConstellationType"), MISSING),
     Field("name", TPrim, MISSING) >>

OutputSettings_fields ==
  << Field("type", TEnum("OutputType"), Member("OutputType", "IF_DATA")),
     Field("format", TEnum("OutputFormat"), Member("OutputFormat", "IQ8")),
     Field("sample_freq", TPrim, Num("20.0")),
     Field("center_freq", TPrim, Num("1575.42")),
     Field("interval", TPrim, Num("1.0")),
     Field("name", TPrim, Str("output.bin")),
     Field("config", TDc("OutputConfig"), Factory("OutputConfig")),
     Field("system_select", TArgs(TDc("SystemSelect")), Factory("list")) >>

GNSSSignalSimConfig_fields ==
  << Field("version", TPrim, Num("1.0")),
     Field("description", TPrim, Str("GNSSSignalSim Configuration")),
     Field("comment", TPrim, Str("")),
     Field("time", TDc("TimeConfig"), Factory("TimeConfig")),
     Field("trajectory", TDc("TrajectoryConfig"), Factory("TrajectoryConfig")),
     Field("ephemeris", TArgs(TDc("EphemerisConfig")), Factory("list")),
     Field("output", TDc("OutputSettings"), Factory("OutputSettings")),
     Field("power", TDc("SignalPowerConfig"), Factory("SignalPowerConfig")),
     Field("almanac", TArgs(TDc("AlmanacConfig")), Factory("list")) >>

dataclass_fields(cls) ==
  CASE cls = "TimeConfig" -> TimeConfig_fields
    [] cls = "PositionConfig" -> PositionConfig_fields
    [] cls = "VelocityConfig" -> VelocityConfig_fields
    [] cls = "TrajectorySegment" -> TrajectorySegment_fields
    [] cls = "TrajectoryConfig" -> TrajectoryConfig_fields
    [] cls = "EphemerisConfig" -> EphemerisConfig_fields
    [] cls = "SystemSelect" -> SystemSelect_fields
    [] cls = "SatelliteMask" -> SatelliteMask_fields
    [] cls = "OutputConfig" -> OutputConfig_fields
    [] cls = "PowerConfig" -> PowerConfig_fields
    [] cls = "SignalPowerValue" -> SignalPowerValue_fields
    [] cls = "SignalPower" -> SignalPower_fields
    [] cls = "SignalPowerConfig" -> SignalPowerConfig_fields
    [] cls = "AlmanacConfig" -> AlmanacConfig_fields
    [] cls = "OutputSettings" -> OutputSettings_fields
    [] cls = "GNSSSignalSimConfig" -> GNSSSignalSimConfig_fields

----------------------------------------------------------------------------
(* Field-name conversion.  A TLA+ string is atomic, so the conversions work *)
(* on the characters of a name: Chars gives the characters of every name   *)
(* and key the model uses, text is its inverse.                            *)

LowerCase == << "a","b","c","d","e","f","g","h","i","j","k","l","m",
                "n","o","p","q","r","s","t","u","v","w","x","y","z" >>
UpperCase == << "A","B","C","D","E","F","G","H","I","J","K","L","M",
                "N","O","P","Q","R","S","T","U","V","W","X","Y","Z" >>

Range(seq) == { seq[i] : i \in DOMAIN seq }
IndexIn(seq, c) == CHOOSE i \in DOMAIN seq : seq[i] = c

isupper(c) == c \in Range(UpperCase)
islower(c) == c \in Range(LowerCase)
upper(c) == IF islower(c) THEN UpperCase[IndexIn(LowerCase, c)] ELSE c
lower(c) == IF isupper(c) THEN LowerCase[IndexIn(UpperCase, c)] ELSE c

Chars ==
  "type" :> <<"t","y","p","e">> @@
  "year" :> <<"y","e","a","r">> @@
  "month" :> <<"m","o","n","t","h">> @@
  "day" :> <<"d","a","y">> @@
  "hour" :> <<"h","o","u","r">> @@
  "minute" :> <<"m","i","n","u","t","e">> @@
  "second" :> <<"s","e","c","o","n","d">> @@
  "week" :> <<"w","e","e","k">> @@
  "leap_year" :> <<"l","e","a","p","_","y","e","a","r">> @@
  "leapYear" :> <<"l","e","a","p","Y","e","a","r">> @@
  "format" :> <<"f","o","r","m","a","t">> @@
  "longitude" :> <<"l","o","n","g","i","t","u","d","e">> @@
  "latitude" :> <<"l","a","t","i","t","u","d","e">> @@
  "altitude" :> <<"a","l","t","i","t","u","d","e">> @@
  "x" :> <<"x">> @@
  "y" :> <<"y">> @@
  "z" :> <<"z">> @@
  "speed" :> <<"s","p","e","e","d">> @@
  "course" :> <<"c","o","u","r","s","e">> @@
  "up" :> <<"u","p">> @@
  "east" :> <<"e","a","s","t">> @@
  "north" :> <<"n","o","r","t","h">> @@
  "speed_unit" :> <<"s","p","e","e","d","_","u","n","i","t">> @@
  "speedUnit" :> <<"s","p","e","e","d","U","n","i","t">> @@
  "angle_unit" :> <<"a","n","g","l","e","_","u","n","i","t">> @@
  "angleUnit" :> <<"a","n","g","l","e","U","n","i","t">> @@
  "east_unit" :> <<"e","a","s","t","_","u","n","i","t">> @@
  "eastUnit" :> <<"e","a","s","t","U","n","i","t">> @@
  "north_unit" :> <<"n","o","r","t","h","_","u","n","i","t">> @@
  "northUnit" :> <<"n","o","r","t","h","U","n","i","t">> @@
  "up_unit" :> <<"u","p","_","u","n","i","t">> @@
  "upUnit" :> <<"u","p","U","n","i","t">> @@
  "x_unit" :> <<"x","_","u","n","i","t">> @@
  "xUnit" :> <<"x","U","n","i","t">> @@
  "y_unit" :> <<"y","_","u","n","i","t">> @@
  "yUnit" :> <<"y","U","n","i","t">> @@
  "z_unit" :> <<"z","_","u","n","i","t">> @@
  "zUnit" :> <<"z","U","n","i","t">> @@
  "time" :> <<"t","i","m","e">> @@
  "acceleration" :> <<"a","c","c","e","l","e","r","a","t","i","o","n">> @@
  "rate" :> <<"r","a","t","e">> @@
  "angle" :> <<"a","n","g","l","e">> @@
  "radius" :> <<"r","a","d","i","u","s">> @@
  "name" :> <<"n","a","m","e">> @@
  "init_position" :> <<"i","n","i","t","_","p","o","s","i","t","i","o","n">> @@
  "initPosition" :> <<"i","n","i","t","P","o","s","i","t","i","o","n">> @@
  "init_velocity" :> <<"i","n","i","t","_","v","e","l","o","c","i","t","y">> @@
  "initVelocity" :> <<"i","n","i","t","V","e","l","o","c","i","t","y">> @@
  "trajectory_list" :> <<"t","r","a","j","e","c","t","o","r","y","_","l","i","s","t">> @@
  "trajectoryList" :> <<"t","r","a","j","e","c","t","o","r","y","L","i","s","t">> @@
  "include" :> <<"i","n","c","l","u","d","e">> @@
  "system" :> <<"s","y","s","t","e","m">> @@
  "signal" :> <<"s","i","g","n","a","l">> @@
  "enable" :> <<"e","n","a","b","l","e">> @@
  "svid" :> <<"s","v","i","d">> @@
  "elevation_mask" :> <<"e","l","e","v","a","t","i","o","n","_","m","a","s","k">> @@
  "elevationMask" :> <<"e","l","e","v","a","t","i","o","n","M","a","s","k">> @@
  "mask_out" :> <<"m","a","s","k","_","o","u","t">> @@
  "maskOut" :> <<"m","a","s","k","O","u","t">> @@
  "unit" :> <<"u","n","i","t">> @@
  "value" :> <<"v","a","l","u","e">> @@
  "power_value" :> <<"p","o","w","e","r","_","v","a","l","u","e">> @@
  "powerValue" :> <<"p","o","w","e","r","V","a","l","u","e">> @@
  "noise_floor" :> <<"n","o","i","s","e","_","f","l","o","o","r">> @@
  "noiseFloor" :> <<"n","o","i","s","e","F","l","o","o","r">> @@
  "init_power" :> <<"i","n","i","t","_","p","o","w","e","r">> @@
  "initPower" :> <<"i","n","i","t","P","o","w","e","r">> @@
  "elevation_adjust" :> <<"e","l","e","v","a","t","i","o","n","_","a","d","j","u","s","t">> @@
  "elevationAdjust" :> <<"e","l","e","v","a","t","i","o","n","A","d","j","u","s","t">> @@
  "signal_power" :> <<"s","i","g","n","a","l","_","p","o","w","e","r">> @@
  "signalPower" :> <<"s","i","g","n","a","l","P","o","w","e","r">> @@
  "sample_freq" :> <<"s","a","m","p","l","e","_","f","r","e","q">> @@
  "sampleFreq" :> <<"s","a","m","p","l","e","F","r","e","q">> @@
  "center_freq" :> <<"c","e","n","t","e","r","_","f","r","e","q">> @@
  "centerFreq" :> <<"c","e","n","t","e","r","F","r","e","q">> @@
  "interval" :> <<"i","n","t","e","r","v","a","l">> @@
  "config" :> <<"c","o","n","f","i","g">> @@
  "system_select" :> <<"s","y","s","t","e","m","_","s","e","l","e","c","t">> @@
  "systemSelect" :> <<"s","y","s","t","e","m","S","e","l","e","c","t">> @@
  "version" :> <<"v","e","r","s","i","o","n">> @@
  "description" :> <<"d","e","s","c","r","i","p","t","i","o","n">> @@
  "comment" :> <<"c","o","m","m","e","n","t">> @@
  "trajectory" :> <<"t","r","a","j","e","c","t","o","r","y">> @@
  "ephemeris" :> <<"e","p","h","e","m","e","r","i","s">> @@
  "output" :> <<"o","u","t","p","u","t">> @@
  "power" :> <<"p","o","w","e","r">> @@
  "almanac" :> <<"a","l","m","a","n","a","c">> @@
  "Speed" :> <<"S","p","e","e","d">> @@
  "futureKey" :> <<"f","u","t","u","r","e","K","e","y">> @@
  "SpeedUnit" :> <<"S","p","e","e","d","U","n","i","t">> @@
  "future_key" :> <<"f","u","t","u","r","e","_","k","e","y">> @@
  "END OF HEADER" :> <<"E","N","D"," ","O","F"," ","H","E","A","D","E","R">> @@
  "RINEX VERSION / TYPE" :>
    <<"R","I","N","E","X"," ","V","E","R","S","I","O","N"," ","/"," ",
      "T","Y","P","E">> @@
  "PGM / RUN BY / DATE" :>
    <<"P","G","M"," ","/"," ","R","U","N"," ","B","Y"," ","/"," ",
      "D","A","T","E">> @@
  "LEAP SECONDS" :> <<"L","E","A","P"," ","S","E","C","O","N","D","S">> @@
  "Unknown" :> <<"U","n","k","n","o","w","n">>

chars(s) == Chars[s]
text(cs) ==
  IF \E s \in DOMAIN Chars : Chars[s] = cs
  THEN CHOOSE s \in DOMAIN Chars : Chars[s] = cs
  ELSE "?"

RECURSIVE Flatten(_)
Flatten(seqs) ==
  IF seqs = << >> THEN << >> ELSE Head(seqs) \o Flatten(Tail(seqs))

(* str.split("_") *)
RECURSIVE split(_)
split(cs) ==
  IF \A i \in DOMAIN cs : cs[i] # "_" THEN << cs >>
  ELSE LET p == CHOOSE i \in DOMAIN cs :
                  cs[i] = "_" /\ \A j \in 1..(i - 1) : cs[j] # "_"
       IN  << SubSeq(cs, 1, p - 1) >> \o split(SubSeq(cs, p + 1, Len(cs)))

(* str.title(): a letter that follows a letter is lowered, any other letter raised *)
title(cs) ==
  [ i \in DOMAIN cs |->
      IF i > 1 /\ (islower(cs[i - 1]) \/ isupper(cs[i - 1]))
      THEN lower(cs[i]) ELSE upper(cs[i]) ]

to_camel_case(snake_str) ==
  LET components == split(chars(snake_str))
      rest == Tail(components)
  IN  text(components[1] \o Flatten([ i \in DOMAIN rest |-> title(rest[i]) ]))

(* capitals only lowered, no underscore put before them *)
to_snake_case_plain(camel_str) ==
  IF camel_str = "" THEN camel_str
  ELSE LET cs == chars(camel_str)
       IN  text([ i \in DOMAIN cs |-> lower(cs[i]) ])

to_snake_case(camel_str) ==
  IF camel_str = "" THEN camel_str
  ELSE LET cs == chars(camel_str)
           tl == Tail(cs)
       IN  text(<< lower(cs[1]) >> \o
                Flatten([ i \in DOMAIN tl |->
                            IF isupper(tl[i]) THEN << "_", lower(tl[i]) >>
                            ELSE << tl[i] >> ]))

(* the two conversions, tabulated once over the names in use *)
CamelName == [ s \in DOMAIN Chars |-> to_camel_case(s) ]
SnakeName == [ s \in DOMAIN Chars |-> to_snake_case(s) ]

----------------------------------------------------------------------------
(* GNSSSignalSimConfig.to_dict *)

convert_enum(obj) ==
  IF obj.k = "enum" THEN Str(EnumMembers[obj.e][obj.m]) ELSE obj

(* the repair without its table: L1CA for every constellation *)
default_signal_l1ca(system_value) == Str("L1CA")

(* the signal a SystemSelect without signal is serialized with *)
default_signal(system_value) ==
  CASE system_value = Member("ConstellationType", "GPS") -> Str("L1CA")
    [] system_value = Member("ConstellationType", "BDS") -> Str("B1C")
    [] system_value = Member("ConstellationType", "GALILEO") -> Str("E1")
    [] system_value = Member("ConstellationType", "GLONASS") -> Str("G1")
    [] OTHER -> Str("L1CA")

(* the filter that keeps every entry *)
included_all(eph) == TRUE

(* getattr(eph, 'include', True) *)
included(eph) ==
  IF eph.k = "obj" /\ "include" \in DOMAIN eph.f THEN truthy(eph.f.include)
  ELSE TRUE

(* the value of a field as to_dict goes on with it *)
repaired(obj, field_name, value) ==
  IF obj.cls = "SystemSelect" /\ field_name = "signal"
     /\ (value = None \/ value = Str(""))
  THEN default_signal(obj.f.system)
  ELSE IF obj.cls = "GNSSSignalSimConfig" /\ field_name = "ephemeris"
  THEN List(SelectSeq(value.l, included))
  ELSE value

field_value(obj, field_name) == repaired(obj, field_name, obj.f[field_name])

(* the interval kept for the position type only *)
output_skips_position_only(output_type, field_name) ==
  IF field_name = "interval"
  THEN output_type # Member("OutputType", "POSITION")
  ELSE /\ field_name \in {"sample_freq", "center_freq"}
       /\ output_type # Member("OutputType", "IF_DATA")

output_skips(output_type, field_name) ==
  IF field_name = "interval"
  THEN output_type \notin { Member("OutputType", "POSITION"),
                            Member("OutputType", "OBSERVATION") }
  ELSE /\ field_name \in {"sample_freq", "center_freq"}
       /\ output_type # Member("OutputType", "IF_DATA")

velocity_skips(velocity_type, field_name) ==
  CASE velocity_type = Member("VelocityType", "SCU") ->
         field_name \in {"east", "north", "x", "y", "z", "east_unit",
                         "north_unit", "up_unit", "x_unit", "y_unit", "z_unit"}
    [] velocity_type = Member("VelocityType", "ENU") ->
         field_name \in {"speed", "course", "x", "y", "z", "speed_unit",
                         "angle_unit", "x_unit", "y_unit", "z_unit"}
    [] velocity_type = Member("VelocityType", "ECEF") ->
         field_name \in {"speed", "course", "up", "east", "north",
                         "speed_unit", "angle_unit", "east_unit",
                         "north_unit", "up_unit"}
    [] OTHER -> FALSE

position_skips(position_type, field_name) ==
  CASE position_type = Member("PositionType", "LLA") ->
         field_name \in {"x", "y", "z"}
    [] position_type = Member("PositionType", "ECEF") ->
         field_name \in {"format", "longitude", "latitude", "altitude"}
    [] OTHER -> FALSE

(* the `continue` statements of convert_dataclass, in their order *)
skips(obj, field_name, value) ==
  \/ obj.cls = "OutputSettings" /\ output_skips(obj.f.type, field_name)
  \/ obj.cls = "EphemerisConfig" /\ field_name = "include"
  \/ obj.cls = "VelocityConfig" /\ velocity_skips(obj.f.type, field_name)
  \/ obj.cls = "PositionConfig" /\ position_skips(obj.f.type, field_name)
  \/ value = None /\ ~(obj.cls = "SystemSelect" /\ field_name = "signal")

RECURSIVE convert_dataclass(_)

(* a list is converted item by item, anything else as it is *)
converted(value) ==
  IF value.k = "list"
  THEN List([ j \in DOMAIN value.l |-> convert_dataclass(value.l[j]) ])
  ELSE convert_dataclass(value)

(* one turn of the loop over the fields: nothing, or the item it stores *)
entry(obj, field_name, value) ==
  IF skips(obj, field_name, value) THEN << >>
  ELSE << Item(CamelName[field_name], converted(value)) >>

entries(obj, fields) ==
  Flatten([ i \in DOMAIN fields |->
              entry(obj, fields[i].name, field_value(obj, fields[i].name)) ])

convert_dataclass(obj) ==
  IF obj.k = "obj" THEN Dict(entries(obj, dataclass_fields(obj.cls)))
  ELSE convert_enum(obj)

to_dict(self) == convert_dataclass(self)

----------------------------------------------------------------------------
(* GNSSSignalSimConfig.from_dict *)

HasFieldIn(fields, name) == \E i \in DOMAIN fields : fields[i].name = name
FieldIn(fields, name) == fields[CHOOSE i \in DOMAIN fields : fields[i].name = name]
HasField(cls, name) == HasFieldIn(dataclass_fields(cls), name)
FieldOf(cls, name) == FieldIn(dataclass_fields(cls), name)

(* the lookup taken by member name instead of by value *)
enum_by_name(e, s) ==
  IF s \in DOMAIN EnumMembers[e] THEN Member(e, s) ELSE Raise("ValueError")

(* field_type(value) for an Enum class: the member with that value, or ValueError *)
enum_by_value(e, s) ==
  IF \E m \in DOMAIN EnumMembers[e] : EnumMembers[e][m] = s
  THEN Member(e, CHOOSE m \in DOMAIN EnumMembers[e] : EnumMembers[e][m] = s)
  ELSE Raise("ValueError")

(* the conversion without its try/except: the ValueError propagates *)
enum_field_raising(e, s) == enum_by_value(e, s)

(* try: field_type(value) / except ValueError: None *)
enum_field(e, s) ==
  LET member == enum_by_value(e, s)
  IN  IF member.k = "raise" THEN None ELSE member

legacy_unit(snake_key, value) ==
  IF snake_key = "speed_unit" /\ value = Str("m/s") THEN Str("mps")
  ELSE IF snake_key = "speed_unit" /\ value = Str("km/h") THEN Str("kph")
  ELSE IF snake_key = "angle_unit" /\ value = Str("deg") THEN Str("degree")
  ELSE value

(* the first exception among converted values, in iteration order *)
FirstRaise(seq) ==
  seq[CHOOSE i \in DOMAIN seq :
        seq[i].k = "raise" /\ \A j \in 1..(i - 1) : seq[j].k # "raise"]
AnyRaise(seq) == \E i \in DOMAIN seq : seq[i].k = "raise"

HasKw(kwargs, name) == \E i \in DOMAIN kwargs : kwargs[i].key = name
Kw(kwargs, name) ==
  kwargs[CHOOSE i \in DOMAIN kwargs :
           kwargs[i].key = name
           /\ \A j \in (i + 1)..Len(kwargs) : kwargs[j].key # name].v

(* the constructor call with kwargs: TypeError when a field without default is not given *)
RECURSIVE construct(_, _)

default_value(default) ==
  IF default.k = "factory"
  THEN IF default.cls = "list" THEN List(<< >>) ELSE construct(default.cls, << >>)
  ELSE default

init(cls, fields, kwargs) ==
  IF \E i \in DOMAIN fields :
       fields[i].default = MISSING /\ ~HasKw(kwargs, fields[i].name)
  THEN Raise("TypeError")
  ELSE Obj(cls, [ n \in { fields[i].name : i \in DOMAIN fields } |->
                    IF HasKw(kwargs, n) THEN Kw(kwargs, n)
                    ELSE default_value(FieldIn(fields, n).default) ])

construct(cls, kwargs) == init(cls, dataclass_fields(cls), kwargs)

RECURSIVE convert_to_dataclass(_, _)

(* the list comprehension over the items of a list *)
listed(elems) == IF AnyRaise(elems) THEN FirstRaise(elems) ELSE List(elems)

(* the branches taken for one key of the mapping *)
convert_value(snake_key, field_type, value) ==
  IF value.k = "list" /\ field_type.t = "args"
  THEN listed([ j \in DOMAIN value.l |->
                  convert_to_dataclass(value.l[j], field_type.first) ])
  ELSE IF value.k = "dict" /\ field_type.t = "dc"
  THEN convert_to_dataclass(value, field_type)
  ELSE IF field_type.t = "enum" /\ value.k = "str"
  THEN enum_field(field_type.e, value.s)
  ELSE legacy_unit(snake_key, value)

(* the keys of the mapping, in snake case *)
snake_keys(items) ==
  [ i \in DOMAIN items |-> Item(SnakeName[items[i].key], items[i].v) ]

(* the items whose key is a field of the class *)
known(fields, items) == SelectSeq(items, LAMBDA it : HasFieldIn(fields, it.key))

(* the loop over the known items, then the constructor call *)
called(cls, kwargs, values) ==
  IF AnyRaise(values) THEN FirstRaise(values) ELSE construct(cls, kwargs)

keyword_arguments(cls, kwargs) ==
  called(cls, kwargs, [ i \in DOMAIN kwargs |-> kwargs[i].v ])

convert_known(cls, fields, items) ==
  keyword_arguments(cls,
    [ i \in DOMAIN items |->
        Item(items[i].key,
             convert_value(items[i].key, FieldIn(fields, items[i].key).type,
                           items[i].v)) ])

(* every key handed to the constructor: an unexpected keyword argument *)
convert_fields_strict(cls, fields, items) ==
  IF \E i \in DOMAIN items : ~HasFieldIn(fields, items[i].key)
  THEN Raise("TypeError")
  ELSE convert_known(cls, fields, items)

convert_fields(cls, fields, items) == convert_known(cls, fields, known(fields, items))

convert_to_dataclass(data_dict, dataclass_type) ==
  IF dataclass_type.t # "dc" THEN data_dict
  ELSE IF data_dict.k # "dict" THEN Raise("AttributeError")
  ELSE convert_fields(dataclass_type.cls, dataclass_fields(dataclass_type.cls),
                      snake_keys(data_dict.items))

(* the top-level sections read with data[key] instead of being looked up  *)
(* only when present: KeyError on a missing section                       *)
from_dict_strict(d) ==
  IF \E i \in DOMAIN GNSSSignalSimConfig_fields :
       \A j \in DOMAIN d.items :
         d.items[j].key # CamelName[GNSSSignalSimConfig_fields[i].name]
  THEN Raise("KeyError")
  ELSE convert_to_dataclass(d, TDc("GNSSSignalSimConfig"))

from_dict(d) == convert_to_dataclass(d, TDc("GNSSSignalSimConfig"))


----------------------------------------------------------------------------
(* Building instances: the dataclass constructor with keyword arguments,   *)
(* and assignment to a field of the tree.                                  *)

New(cls, kwargs) == construct(cls, kwargs)

RECURSIVE Assign(_, _, _)
Assign(obj, path, v) ==
  IF Len(path) = 1 THEN Obj(obj.cls, [obj.f EXCEPT ![path[1]] = v])
  ELSE Obj(obj.cls, [obj.f EXCEPT ![path[1]] = Assign(@, Tail(path), v)])

M(e, m) == Member(e, m)

(* Bounds of the enumerated documents *)
MaxEph == 3     \* longest ephemeris list
MaxSel == 1     \* longest system_select list

GNSSSignalSimConfig0 == New("GNSSSignalSimConfig", << >>)

TimeConfigs ==
  { New("TimeConfig", << >>),
    New("TimeConfig", << Item("type", M("TimeType", "UTC")), Item("year", Num("2025")),
                         Item("month", Num("6")), Item("day", Num("5")),
                         Item("hour", Num("10")), Item("minute", Num("5")),
                         Item("second", Num("30")) >>),
    New("TimeConfig", << Item("type", M("TimeType", "GPS")), Item("week", Num("2369")),
                         Item("second", Num("381900.0")) >>),
    New("TimeConfig", << Item("type", M("TimeType", "GLONASS")),
                         Item("leap_year", Num("2024")), Item("day", Num("157")),
                         Item("second", Num("47130.0")) >>) }

PositionConfigs ==
  { New("PositionConfig", << Item("type", M("PositionType", t)) >> \o lla \o ecef) :
      t \in {"LLA", "ECEF"},
      lla \in { << >>, << Item("format", Str("dms")), Item("longitude", Num("-122.4194")),
                          Item("latitude", Num("37.7749")), Item("altitude", Num("50.0")) >> },
      ecef \in { << >>, << Item("x", Num("-2700000.0")), Item("y", Num("-4290000.0")),
                           Item("z", Num("3860000.0")) >> } }

VelocityConfigs ==
  { New("VelocityConfig", << Item("type", M("VelocityType", t)) >> \o scu \o rest) :
      t \in {"SCU", "ENU", "ECEF"},
      scu \in { << >>,
                << Item("speed", Num("99")), Item("course", Num("45.0")),
                   Item("speed_unit", Str("kph")), Item("angle_unit", Str("rad")) >>,
                << Item("speed", Num("5")), Item("speed_unit", Str("m/s")),
                   Item("angle_unit", Str("deg")) >> },
      rest \in { << >>,
                 << Item("east", Num("1")), Item("north", Num("2")), Item("up", Num("3")),
                    Item("x", Num("4")), Item("y", Num("5")), Item("z", Num("6")),
                    Item("east_unit", Str("kph")), Item("up_unit", Str("knot")),
                    Item("z_unit", Str("mph")) >> } }

EphemerisNames == << "a.rnx", "b.rnx", "c.rnx", "d.rnx" >>

(* ephemeris lists: the n-th entry names the n-th file, included or not *)
EphemerisLists ==
  UNION { { [ i \in 1..n |->
                New("EphemerisConfig",
                    << Item("name", Str(EphemerisNames[i])), Item("include", Bool(inc[i])) >>) ] :
              inc \in [1..n -> BOOLEAN] } : n \in 0..MaxEph }

SystemSelects ==
  { New("SystemSelect", << Item("system", M("ConstellationType", s)), Item("signal", sig),
                           Item("enable", Bool(s # "BDS")) >>) :
      s \in {"GPS", "BDS", "GALILEO", "GLONASS", "QZSS", "IRNSS"},
      sig \in { Str(""), None, Str("L5") } }

RECURSIVE SeqsUpTo(_, _)
SeqsUpTo(S, n) ==
  IF n = 0 THEN { << >> }
  ELSE SeqsUpTo(S, n - 1) \cup
       { Append(s, e) : s \in { t \in SeqsUpTo(S, n - 1) : Len(t) = n - 1 }, e \in S }

OutputSettingsSet ==
  { New("OutputSettings", << Item("type", M("OutputType", t)) >> \o vals) :
      t \in {"IF_DATA", "POSITION", "OBSERVATION"},
      vals \in { << >>,
                 << Item("format", M("OutputFormat", "RINEX3")), Item("sample_freq", Num("5.0")),
                    Item("center_freq", Num("1176.45")), Item("interval", Num("0.1")),
                    Item("name", Str("obs.o")) >> } }

TrajectorySegment1 ==
  New("TrajectorySegment", << Item("type", M("TrajectoryType", "CONST_ACC")),
                              Item("time", Num("10.0")), Item("acceleration", Num("2.0")) >>)
SatelliteMask1 ==
  New("SatelliteMask", << Item("system", M("ConstellationType", "GPS")),
                          Item("svid", List(<< Num("1"), Num("2") >>)) >>)
SignalPower1 ==
  New("SignalPower",
      << Item("system", M("ConstellationType", "GALILEO")), Item("svid", Num("7")),
         Item("power_value",
              List(<< New("SignalPowerValue", << Item("time", Num("0.0")),
                                                 Item("unit", Str("dBHz")),
                                                 Item("value", Num("45.0")) >>) >>)) >>)
AlmanacConfig1 ==
  New("AlmanacConfig", << Item("system", M("ConstellationType", "BDS")),
                          Item("name", Str("bds.alm")) >>)

(* a document with an entry in every list *)
FullDocument(time, position, velocity, output) ==
  LET c1 == Assign(GNSSSignalSimConfig0, << "time" >>, time)
      c2 == Assign(c1, << "trajectory", "init_position" >>, position)
      c3 == Assign(c2, << "trajectory", "init_velocity" >>, velocity)
      c4 == Assign(c3, << "trajectory", "trajectory_list" >>, List(<< TrajectorySegment1 >>))
      c5 == Assign(c4, << "ephemeris" >>,
                   List(<< New("EphemerisConfig", << Item("name", Str("a.rnx")) >>) >>))
      c6 == Assign(c5, << "output" >>,
                   Assign(Assign(output, << "config", "mask_out" >>, List(<< SatelliteMask1 >>)),
                          << "system_select" >>,
                          List(<< New("SystemSelect",
                                      << Item("system", M("ConstellationType", "GPS")),
                                         Item("signal", Str("L1CA")) >>) >>)))
      c7 == Assign(c6, << "power", "signal_power" >>, List(<< SignalPower1 >>))
  IN  Assign(c7, << "almanac" >>, List(<< AlmanacConfig1 >>))

TypedDocument(time, position, velocity, output) ==
  Assign(Assign(Assign(Assign(GNSSSignalSimConfig0, << "time" >>, time),
                       << "trajectory", "init_position" >>, position),
                << "trajectory", "init_velocity" >>, velocity),
         << "output" >>, output)

FullDocuments ==
  [ lla |-> FullDocument(
              New("TimeConfig", << Item("year", Num("2025")), Item("month", Num("6")),
                                   Item("day", Num("5")), Item("hour", Num("10")),
                                   Item("minute", Num("5")), Item("second", Num("30")) >>),
              New("PositionConfig", << Item("longitude", Num("-122.4194")) >>),
              New("VelocityConfig", << Item("speed", Num("15.0")) >>),
              New("OutputSettings", << >>)),
    ecef |-> TypedDocument(
              New("TimeConfig", << Item("type", M("TimeType", "GPS")),
                                   Item("week", Num("2369")), Item("second", Num("381900.0")) >>),
              New("PositionConfig", << Item("type", M("PositionType", "ECEF")),
                                       Item("x", Num("-2700000.0")), Item("y", Num("-4290000.0")),
                                       Item("z", Num("3860000.0")) >>),
              New("VelocityConfig", << Item("type", M("VelocityType", "ENU")),
                                       Item("east", Num("1")), Item("north", Num("2")) >>),
              New("OutputSettings", << Item("type", M("OutputType", "POSITION")),
                                       Item("format", M("OutputFormat", "KML")) >>)) ]

(* the documents a session starts from *)
Configs ==
  { Assign(GNSSSignalSimConfig0, << "time" >>, t) : t \in TimeConfigs }
  \cup { Assign(GNSSSignalSimConfig0, << "trajectory", "init_position" >>, p) :
           p \in PositionConfigs }
  \cup { Assign(GNSSSignalSimConfig0, << "trajectory", "init_velocity" >>, v) :
           v \in VelocityConfigs }
  \cup { Assign(GNSSSignalSimConfig0, << "ephemeris" >>, List(l)) : l \in EphemerisLists }
  \cup { Assign(GNSSSignalSimConfig0, << "output" >>, o) : o \in OutputSettingsSet }
  \cup { Assign(GNSSSignalSimConfig0, << "output", "system_select" >>, List(l)) :
           l \in SeqsUpTo(SystemSelects, MaxSel) }
  \cup { FullDocuments[b] : b \in DOMAIN FullDocuments }

----------------------------------------------------------------------------
(* Configuration files on disk.  A file is what save_to_file wrote for one *)
(* of the full documents, possibly changed in one place afterwards: a key  *)
(* removed, a value replaced, or a key added that the model does not know. *)
(* A place in a mapping is the sequence of keys and list positions leading *)
(* to it.                                                                  *)

K(key) == [key |-> key]
I(idx) == [idx |-> idx]

ItemIndex(d, key) == CHOOSE i \in DOMAIN d.items : d.items[i].key = key
HasKey(d, key) == d.k = "dict" /\ \E i \in DOMAIN d.items : d.items[i].key = key
Get(d, key) == d.items[ItemIndex(d, key)].v
Keys(d) == { d.items[i].key : i \in DOMAIN d.items }

RECURSIVE Places(_)
Places(v) ==
  IF v.k = "dict"
  THEN UNION { { << K(v.items[i].key) >> }
               \cup { << K(v.items[i].key) >> \o p : p \in Places(v.items[i].v) } :
               i \in DOMAIN v.items }
  ELSE IF v.k = "list"
  THEN UNION { { << I(j) >> \o p : p \in Places(v.l[j]) } : j \in DOMAIN v.l }
  ELSE { }

RECURSIVE At(_, _)
At(v, p) ==
  IF p = << >> THEN v
  ELSE IF "key" \in DOMAIN p[1] THEN At(Get(v, p[1].key), Tail(p))
  ELSE At(v.l[p[1].idx], Tail(p))

(* v with the value at place p changed by the edit e *)
RECURSIVE Edited(_, _, _)
Edited(v, p, e) ==
  IF p = << >>
  THEN (* p led to a mapping: empty it, or add a key to it *)
       IF e.op = "clear" THEN Dict(<< >>)
       ELSE Dict(Append(v.items, Item(e.key, e.v)))
  ELSE IF "idx" \in DOMAIN p[1]
  THEN List([v.l EXCEPT ![p[1].idx] = Edited(@, Tail(p), e)])
  ELSE LET i == ItemIndex(v, p[1].key)
       IN  IF Len(p) = 1 /\ e.op = "drop"
           THEN Dict(SubSeq(v.items, 1, i - 1) \o SubSeq(v.items, i + 1, Len(v.items)))
           ELSE IF Len(p) = 1 /\ e.op = "set"
           THEN Dict([v.items EXCEPT ![i] = Item(@.key, e.v)])
           ELSE Dict([v.items EXCEPT ![i] = Item(@.key, Edited(@.v, Tail(p), e))])

AsSaved == [op |-> "none"]
Drop == [op |-> "drop"]
Set(v) == [op |-> "set", v |-> v]
Add(key, v) == [op |-> "add", key |-> key, v |-> v]
Clear == [op |-> "clear"]

SavedFile(base) == to_dict(FullDocuments[base])

(* the places of a saved file where a mapping sits, the file itself included *)
MappingPlaces(d) == { << >> } \cup { p \in Places(d) : At(d, p).k = "dict" }
ListedMappings(d, p) ==
  { p \o << I(j) >> : j \in { n \in DOMAIN At(d, p).l : At(d, p).l[n].k = "dict" } }
ListedMappingPlaces(d) ==
  UNION { ListedMappings(d, p) : p \in { q \in Places(d) : At(d, q).k = "list" } }

(* the unit strings of earlier files, written under the keys of units *)
LegacyUnits == { "m/s", "km/h", "deg" }
UnitKeys ==
  { "speedUnit", "angleUnit", "eastUnit", "northUnit", "upUnit",
    "xUnit", "yUnit", "zUnit", "unit" }

(* what a later version may store under a key of its own: a mapping *)
FutureValue == Dict(<< Item("type", Str("Bogus")) >>)

(* the files made of the saved file d of a document *)
FilesOf(base, d) ==
  { [base |-> base, at |-> << >>, edit |-> AsSaved] }
  \cup { [base |-> base, at |-> p, edit |-> Drop] : p \in Places(d) }
  \cup { [base |-> base, at |-> p, edit |-> Set(Str(s))] :
           p \in { q \in Places(d) : At(d, q).k = "str" },
           s \in { "Bogus", "" } }
  \cup { [base |-> base, at |-> p, edit |-> Set(Str(s))] :
           p \in { q \in Places(d) : \E key \in UnitKeys : q[Len(q)] = K(key) },
           s \in LegacyUnits }
  \cup { [base |-> base, at |-> p, edit |-> e] :
           p \in MappingPlaces(d) \cup ListedMappingPlaces(d),
           e \in { Add("futureKey", Str("x")), Add("futureKey", FutureValue), Clear } }

FilePaths == UNION { FilesOf(base, SavedFile(base)) : base \in DOMAIN FullDocuments }

(* json.load of the file *)
Changed(d, fp) == IF fp.edit = AsSaved THEN d ELSE Edited(d, fp.at, fp.edit)
FileContent(fp) == Changed(SavedFile(fp.base), fp)

NoFile == [base |-> "", at |-> << >>, edit |-> AsSaved]

(* json.load(f) and from_dict(data) of every file, tabulated once *)
Loaded(d) == [data |-> d, result |-> from_dict(d)]
Files == [ fp \in FilePaths |-> Loaded(FileContent(fp)) ]
Contents(files) == [ fp \in DOMAIN files |-> files[fp].data ]
Results(files) == [ fp \in DOMAIN files |-> files[fp].result ]
FileContents == Contents(Files)
LoadResults == Results(Files)

----------------------------------------------------------------------------
(* The document window: MainWindow.save_to_file, MainWindow.load_config    *)
(* and the copy TemplateDialog.save_template takes of the document.        *)

(* the repair written back with setattr(obj, "signal", value) *)
after_to_dict_repairing(self) ==
  LET selects == self.f.output.f.system_select.l
  IN  Assign(self, << "output", "system_select" >>,
             List([ i \in DOMAIN selects |->
                      Assign(selects[i], << "signal" >>,
                             field_value(selects[i], "signal")) ]))

(* The object as convert_dataclass leaves it: `value` is a local name, and *)
(* rebinding it to the repaired signal or the filtered list stores nothing *)
(* in obj.                                                                 *)
after_to_dict(self) == self

(* the template window, the workflow and the generator are left alone *)
OthersUnchanged == UNCHANGED << heap, window, disk, workflow_manager, integration >>

TabsUnchanged ==
  UNCHANGED << time_type_combo, datetime_edit, week_spin, second_spin,
               leap_year_spin, day_spin >>

save_to_file ==
  /\ data' = to_dict(config)
  /\ config' = after_to_dict(config)
  /\ result' = None
  /\ op' = "to_dict"
  /\ file_path' = NoFile
  /\ TabsUnchanged
  /\ UNCHANGED << call, returned, parser >>
  /\ OthersUnchanged

(* an exception in the try block leaves the document as it was *)
unless_raised(was, res) == IF res.k = "raise" THEN was ELSE res

load_config ==
  \E fp \in DOMAIN Files :
    /\ file_path' = fp
    /\ data' = Files[fp].data
    /\ result' = Files[fp].result
    /\ config' = unless_raised(config, result')
    /\ op' = "from_dict"
    /\ TabsUnchanged
    /\ UNCHANGED << call, returned, parser >>
    /\ OthersUnchanged

save_template ==
  /\ data' = to_dict(config)
  /\ result' = from_dict(data')
  /\ config' = after_to_dict(config)
  /\ op' = "round_trip"
  /\ file_path' = NoFile
  /\ TabsUnchanged
  /\ UNCHANGED << call, returned, parser >>
  /\ OthersUnchanged

----------------------------------------------------------------------------
(* core/config/templates.py: the templates TemplateManager builds once and *)
(* keeps in built_in_templates.                                            *)

(* SystemSelect(system, signal, enable) *)
SystemSelect(system, signal, enable) ==
  New("SystemSelect", << Item("system", M("ConstellationType", system)),
                         Item("signal", Str(signal)), Item("enable", Bool(enable)) >>)

get_default_system_select ==
  << SystemSelect("GPS", "L1CA", TRUE), SystemSelect("GPS", "L1C", FALSE),
     SystemSelect("GPS", "L2C", FALSE), SystemSelect("GPS", "L2P", FALSE),
     SystemSelect("GPS", "L5", FALSE), SystemSelect("BDS", "B1C", FALSE),
     SystemSelect("BDS", "B1I", FALSE), SystemSelect("BDS", "B2I", FALSE),
     SystemSelect("BDS", "B3I", FALSE), SystemSelect("BDS", "B2a", FALSE),
     SystemSelect("BDS", "B2b", FALSE), SystemSelect("GALILEO", "E1", FALSE),
     SystemSelect("GALILEO", "E5a", FALSE), SystemSelect("GALILEO", "E5b", FALSE),
     SystemSelect("GALILEO", "E5", FALSE), SystemSelect("GALILEO", "E6", FALSE),
     SystemSelect("GLONASS", "G1", FALSE), SystemSelect("GLONASS", "G2", FALSE) >>

(* the assignments every template starts with *)
scenario(description, comment, name, latitude, longitude, altitude) ==
  Assign(Assign(Assign(Assign(Assign(Assign(GNSSSignalSimConfig0,
    << "description" >>, Str(description)),
    << "comment" >>, Str(comment)),
    << "trajectory", "name" >>, Str(name)),
    << "trajectory", "init_position", "latitude" >>, Num(latitude)),
    << "trajectory", "init_position", "longitude" >>, Num(longitude)),
    << "trajectory", "init_position", "altitude" >>, Num(altitude))

(* and the ones it ends with *)
conditions(cfg, speed, course, elevation_mask, noise_floor, system_select) ==
  Assign(Assign(Assign(Assign(Assign(cfg,
    << "trajectory", "init_velocity", "speed" >>, Num(speed)),
    << "trajectory", "init_velocity", "course" >>, Num(course)),
    << "output", "config", "elevation_mask" >>, Num(elevation_mask)),
    << "power", "noise_floor" >>, Num(noise_floor)),
    << "output", "system_select" >>, List(system_select))

urban_config ==
  conditions(scenario("Urban Navigation Scenario",
                      "Multi-constellation configuration for urban navigation with typical signal conditions",
                      "Urban Vehicle", "37.7749", "-122.4194", "50.0"),
             "15.0", "45.0", "10.0", "-170.0",
             << SystemSelect("GPS", "L1CA", TRUE), SystemSelect("GPS", "L5", TRUE),
                SystemSelect("GALILEO", "E1", TRUE), SystemSelect("GALILEO", "E5a", TRUE),
                SystemSelect("BDS", "B1C", TRUE), SystemSelect("BDS", "B2a", TRUE) >>)

(* the signals the rural template enables in the default selection *)
RuralSignals == { Str(s) : s \in { "L1CA", "L5", "E1", "E5a", "B1C", "B2a", "G1" } }
rural_select(system_select) ==
  IF system_select.f.signal \in RuralSignals
  THEN Assign(system_select, << "enable" >>, Bool(TRUE))
  ELSE system_select

rural_config ==
  conditions(scenario("Rural Open Sky Scenario",
                      "High-precision configuration for rural/open sky environments",
                      "Rural Vehicle", "40.7128", "-74.006", "100.0"),
             "25.0", "0.0", "5.0", "-174.0",
             [ i \in DOMAIN get_default_system_select |->
                 rural_select(get_default_system_select[i]) ])

aviation_config ==
  Assign(conditions(scenario("Aviation Scenario",
                             "High-altitude aviation configuration with SBAS signals",
                             "Aircraft", "51.47", "-0.4543", "10000.0"),
                    "250.0", "90.0", "0.0", "-174.0",
                    << SystemSelect("GPS", "L1CA", TRUE), SystemSelect("GPS", "L1C", TRUE),
                       SystemSelect("GPS", "L5", TRUE), SystemSelect("GALILEO", "E1", TRUE),
                       SystemSelect("GALILEO", "E5a", TRUE) >>),
         << "power", "elevation_adjust" >>, Bool(TRUE))

maritime_config ==
  conditions(scenario("Maritime Navigation Scenario",
                      "Marine navigation configuration with moderate dynamics",
                      "Vessel", "35.6762", "139.6503", "0.0"),
             "10.0", "180.0", "5.0", "-172.0",
             << SystemSelect("GPS", "L1CA", TRUE), SystemSelect("GPS", "L2C", TRUE),
                SystemSelect("GLONASS", "G1", TRUE), SystemSelect("BDS", "B1I", TRUE),
                SystemSelect("GALILEO", "E1", TRUE) >>)

testing_config ==
  conditions(scenario("Testing and Validation Scenario",
                      "Minimal configuration for testing and validation purposes",
                      "Test Scenario", "0.0", "0.0", "0.0"),
             "0.0", "0.0", "5.0", "-174.0", << SystemSelect("GPS", "L1CA", TRUE) >>)

(* _create_built_in_templates *)
create_built_in_templates ==
  [ name \in { "Urban Navigation", "Rural Open Sky", "Aviation", "Maritime", "Testing" } |->
      CASE name = "Urban Navigation" -> urban_config
        [] name = "Rural Open Sky" -> rural_config
        [] name = "Aviation" -> aviation_config
        [] name = "Maritime" -> maritime_config
        [] name = "Testing" -> testing_config ]

(* Objects by identity: a reference names a place of the heap, and two     *)
(* names holding the same reference hold the same object.                  *)
Ref(id) == [k |-> "ref", id |-> id]
Free == None
HeapSize == 9

BuiltInNames == << "Urban Navigation", "Rural Open Sky", "Aviation", "Maritime", "Testing" >>

(* TemplateManager.__init__: built_in_templates, made once and kept *)
built_in_templates ==
  [ name \in Range(BuiltInNames) |-> Ref(IndexIn(BuiltInNames, name)) ]

(* MainWindow.__init__: a default configuration with the default signal   *)
(* selection, handed to every tab by setup_tabs; no file, nothing modified *)
default_config ==
  Assign(GNSSSignalSimConfig0, << "output", "system_select" >>,
         List(get_default_system_select))

MainWindow ==
  [config |-> Ref(Len(BuiltInNames) + 1), tabs |-> Ref(Len(BuiltInNames) + 1),
   current_file |-> None, is_modified |-> FALSE, closed |-> FALSE]

heap_at_start ==
  [ id \in 1..HeapSize |->
      IF id <= Len(BuiltInNames) THEN create_built_in_templates[BuiltInNames[id]]
      ELSE IF id = Len(BuiltInNames) + 1 THEN default_config
      ELSE Free ]

(* a file in the configuration directory: a name and the ".backup"        *)
(* suffixes appended to it                                                 *)
File(name, backups) == [name |-> name, backups |-> backups]

(* the configuration directory holds one saved document, the templates    *)
(* directory one template saved earlier, Custom.json                       *)
disk_at_start ==
  [configs |-> [ path \in { File("config.json", 0) } |-> SavedFile("lla") ],
   templates |-> [ name \in { "Custom" } |-> SavedFile("lla") ]]

(* manager.py: the workflow steps in their order, the validation statuses *)
WorkflowStep ==
  << "BASIC_INFO", "EPHEMERIS_LOADING", "TIME_VALIDATION", "TRAJECTORY_CONFIG",
     "SIGNAL_SELECTION", "POWER_CONFIG", "OUTPUT_SETTINGS" >>
ValidationStatus == { "NOT_STARTED", "IN_PROGRESS", "VALID", "INVALID", "ERROR" }

StepStatus(status, message, details, can_proceed, completion_percentage) ==
  [status |-> status, message |-> message, details |-> details,
   can_proceed |-> can_proceed, completion_percentage |-> completion_percentage]

(* _initialize_steps *)
initialize_steps ==
  [ step \in Range(WorkflowStep) |->
      IF step = "BASIC_INFO" THEN StepStatus("VALID", "Not started", "", TRUE, 100)
      ELSE IF step = "EPHEMERIS_LOADING" THEN StepStatus("VALID", "Not started", "", TRUE, 0)
      ELSE StepStatus("NOT_STARTED", "Not started", "", FALSE, 0) ]

WorkflowManager ==
  [step_statuses |-> initialize_steps, validation_callbacks |-> {}]

(* IFDataGenIntegration.__init__: no worker; the executable not found yet. *)
(* workers are the threads started so far, temp_json the writes of the     *)
(* configuration file, emitted the signals of the last call.               *)
IFDataGenIntegration ==
  [worker |-> None, ifdatagen_path |-> None, workers |-> << >>,
   temp_json |-> 0, emitted |-> << >>]

Constructed ==
  /\ heap = heap_at_start
  /\ window = MainWindow
  /\ disk = disk_at_start
  /\ workflow_manager = WorkflowManager
  /\ integration = IFDataGenIntegration

(* no function of time_conversions.py called yet *)
NoCall == [fn |-> "", args |-> << >>]

(* RinexParser(): no header, no records, no validity range *)
RinexParser ==
  Obj("RinexParser",
      [header |-> None, ephemeris_records |-> << >>, validity_range |-> None])

(* EphemerisTimeTab.init_ui: the values the time widgets are created with. *)
(* The date-time edit starts at the current time: some date.               *)
DateTimes ==
  { [year |-> "2025", month |-> "6", day |-> "5", hour |-> "10", minute |-> "5", second |-> "30"],
    [year |-> "2024", month |-> "1", day |-> "1", hour |-> "0", minute |-> "0", second |-> "0"] }
Now == CHOOSE dt \in DateTimes : dt.year = "2025"
Weeks == { "2250", "2369" }
Seconds == { "345600.0", "0.0" }
LeapYears == { "2024", "2028" }
Days == { "1", "157" }
TimeTypes == { M("TimeType", m) : m \in DOMAIN EnumMembers.TimeType }

init_ui ==
  /\ time_type_combo = M("TimeType", "UTC")
  /\ datetime_edit = Now
  /\ week_spin = "2250"
  /\ second_spin = "345600.0"
  /\ leap_year_spin = "2024"
  /\ day_spin = "1"

Init ==
  /\ config \in Configs
  /\ data = None
  /\ result = None
  /\ op = "init"
  /\ file_path = NoFile
  /\ init_ui
  /\ call = NoCall
  /\ returned = None
  /\ parser = RinexParser
  /\ Constructed

Next == save_to_file \/ load_config \/ save_template

Spec == Init /\ [][Next]_vars

----------------------------------------------------------------------------
(* The time section of EphemerisTimeTab.  Every handler below ends in      *)
(* update_config, which writes config.time from the widgets.               *)

(* config.time after update_config, the widgets holding the given values *)
update_config(cfg, time_type, dt, week, second, leap_year, day) ==
  LET t0 == [cfg.f.time.f EXCEPT !["type"] = time_type]
      t1 == IF time_type = M("TimeType", "UTC")
            THEN [t0 EXCEPT !["year"] = Num(dt.year), !["month"] = Num(dt.month),
                            !["day"] = Num(dt.day), !["hour"] = Num(dt.hour),
                            !["minute"] = Num(dt.minute), !["second"] = Num(dt.second),
                            !["week"] = None, !["leap_year"] = None]
            ELSE LET s0 == [t0 EXCEPT !["week"] = Num(week), !["second"] = Num(second)]
                     s1 == IF time_type = M("TimeType", "GLONASS")
                           THEN [s0 EXCEPT !["leap_year"] = Num(leap_year),
                                           !["day"] = Num(day)]
                           ELSE [s0 EXCEPT !["leap_year"] = None, !["day"] = None]
                 IN  [s1 EXCEPT !["year"] = None, !["month"] = None,
                                !["hour"] = None, !["minute"] = None]
  IN  Assign(cfg, << "time" >>, Obj("TimeConfig", t1))

Updated ==
  /\ config' = update_config(config, time_type_combo', datetime_edit', week_spin',
                             second_spin', leap_year_spin', day_spin')
  /\ op' = "update_config"
  /\ UNCHANGED << data, result, file_path, call, returned, parser >>
  /\ OthersUnchanged

(* the user picks another time type: currentTextChanged *)
on_time_type_changed ==
  \E t \in TimeTypes \ { time_type_combo } :
    /\ time_type_combo' = t
    /\ UNCHANGED << datetime_edit, week_spin, second_spin, leap_year_spin, day_spin >>
    /\ Updated

(* the user edits the widget that update_time_widgets shows for the type *)
datetime_changed ==
  /\ time_type_combo = M("TimeType", "UTC")
  /\ \E dt \in DateTimes \ { datetime_edit } :
       /\ datetime_edit' = dt
       /\ UNCHANGED << time_type_combo, week_spin, second_spin, leap_year_spin, day_spin >>
       /\ Updated

week_changed ==
  /\ time_type_combo # M("TimeType", "UTC")
  /\ \E w \in Weeks \ { week_spin } :
       /\ week_spin' = w
       /\ UNCHANGED << time_type_combo, datetime_edit, second_spin, leap_year_spin, day_spin >>
       /\ Updated

second_changed ==
  /\ time_type_combo # M("TimeType", "UTC")
  /\ \E s \in Seconds \ { second_spin } :
       /\ second_spin' = s
       /\ UNCHANGED << time_type_combo, datetime_edit, week_spin, leap_year_spin, day_spin >>
       /\ Updated

leap_year_changed ==
  /\ time_type_combo = M("TimeType", "GLONASS")
  /\ \E y \in LeapYears \ { leap_year_spin } :
       /\ leap_year_spin' = y
       /\ UNCHANGED << time_type_combo, datetime_edit, week_spin, second_spin, day_spin >>
       /\ Updated

day_changed ==
  /\ time_type_combo = M("TimeType", "GLONASS")
  /\ \E d \in Days \ { day_spin } :
       /\ day_spin' = d
       /\ UNCHANGED << time_type_combo, datetime_edit, week_spin, second_spin, leap_year_spin >>
       /\ Updated

(* "Auto Time Select" with an analysed file selected: the widgets of the   *)
(* current type are set, signals blocked, to the start of the file         *)
auto_select_time_from_table ==
  /\ \/ /\ time_type_combo = M("TimeType", "UTC")
        /\ datetime_edit' \in DateTimes
        /\ UNCHANGED << week_spin, second_spin, leap_year_spin, day_spin >>
     \/ /\ time_type_combo \in { M("TimeType", "GPS"), M("TimeType", "BDS"),
                                 M("TimeType", "GALILEO") }
        /\ week_spin' \in Weeks
        /\ second_spin' \in Seconds
        /\ UNCHANGED << datetime_edit, leap_year_spin, day_spin >>
     \/ /\ time_type_combo = M("TimeType", "GLONASS")
        /\ leap_year_spin' \in LeapYears
        /\ day_spin' \in Days
        /\ second_spin' \in Seconds
        /\ UNCHANGED << datetime_edit, week_spin >>
  /\ UNCHANGED time_type_combo
  /\ Updated

(* a new window: the default document, the tab refreshed from it *)
InitTime ==
  /\ config = GNSSSignalSimConfig0
  /\ data = None
  /\ result = None
  /\ op = "init"
  /\ file_path = NoFile
  /\ init_ui
  /\ call = NoCall
  /\ returned = None
  /\ parser = RinexParser
  /\ Constructed

NextTime ==
  \/ on_time_type_changed
  \/ datetime_changed
  \/ week_changed
  \/ second_changed
  \/ leap_year_changed
  \/ day_changed
  \/ auto_select_time_from_table
  \/ save_to_file

SpecTime == InitTime /\ [][NextTime]_vars

----------------------------------------------------------------------------
(* What the properties below speak of *)

Serialized == op \in {"to_dict", "round_trip"}

(* the fields the type-conditional rules of the serializer remove *)
PrunedFields(obj) ==
  CASE obj.cls = "PositionConfig" ->
         IF obj.f.type = M("PositionType", "LLA") THEN {"x", "y", "z"}
         ELSE IF obj.f.type = M("PositionType", "ECEF")
         THEN {"format", "longitude", "latitude", "altitude"}
         ELSE { }
    [] obj.cls = "VelocityConfig" ->
         IF obj.f.type = M("VelocityType", "SCU")
         THEN DOMAIN obj.f \ {"type", "speed", "course", "up", "speed_unit", "angle_unit"}
         ELSE IF obj.f.type = M("VelocityType", "ENU")
         THEN DOMAIN obj.f \ {"type", "east", "north", "up", "east_unit", "north_unit", "up_unit"}
         ELSE IF obj.f.type = M("VelocityType", "ECEF")
         THEN DOMAIN obj.f \ {"type", "x", "y", "z", "x_unit", "y_unit", "z_unit"}
         ELSE { }
    [] obj.cls = "OutputSettings" ->
         IF obj.f.type = M("OutputType", "IF_DATA") THEN {"interval"}
         ELSE IF obj.f.type \in { M("OutputType", "POSITION"), M("OutputType", "OBSERVATION") }
         THEN {"sample_freq", "center_freq"}
         ELSE { }
    [] obj.cls = "EphemerisConfig" -> {"include"}
    [] OTHER -> { }

IsIncluded(eph) == eph.f.include = Bool(TRUE)

(* a tree with the pruned fields and the excluded ephemeris entries blanked *)
RECURSIVE Surviving(_)
Surviving(v) ==
  IF v.k = "obj"
  THEN Obj(v.cls,
           [ n \in DOMAIN v.f |->
               IF n \in PrunedFields(v) THEN [k |-> "pruned"]
               ELSE IF v.cls = "GNSSSignalSimConfig" /\ n = "ephemeris"
               THEN Surviving(List(SelectSeq(v.f[n].l, IsIncluded)))
               ELSE Surviving(v.f[n]) ])
  ELSE IF v.k = "list" THEN List([ i \in DOMAIN v.l |-> Surviving(v.l[i]) ])
  ELSE v

WireName ==
  [ x |-> "x", y |-> "y", z |-> "z", format |-> "format", longitude |-> "longitude",
    latitude |-> "latitude", altitude |-> "altitude", speed |-> "speed",
    course |-> "course", up |-> "up", east |-> "east", north |-> "north",
    speed_unit |-> "speedUnit", angle_unit |-> "angleUnit", east_unit |-> "eastUnit",
    north_unit |-> "northUnit", up_unit |-> "upUnit", x_unit |-> "xUnit",
    y_unit |-> "yUnit", z_unit |-> "zUnit", interval |-> "interval",
    sample_freq |-> "sampleFreq", center_freq |-> "centerFreq", include |-> "include" ]

PositionOf(c) == c.f.trajectory.f.init_position
VelocityOf(c) == c.f.trajectory.f.init_velocity
SerializedPosition(d) == Get(Get(d, "trajectory"), "initPosition")
SerializedVelocity(d) == Get(Get(d, "trajectory"), "initVelocity")

(* no pruned field has a key in the serialized mapping *)
PrunedAbsent(c, d) ==
  /\ \A n \in PrunedFields(PositionOf(c)) : ~HasKey(SerializedPosition(d), WireName[n])
  /\ \A n \in PrunedFields(VelocityOf(c)) : ~HasKey(SerializedVelocity(d), WireName[n])
  /\ \A n \in PrunedFields(c.f.output) : ~HasKey(Get(d, "output"), WireName[n])
  /\ \A i \in DOMAIN Get(d, "ephemeris").l : ~HasKey(Get(d, "ephemeris").l[i], "include")

RoundTripHolds ==
  /\ result.k = "obj"
  /\ Surviving(result) = Surviving(config)
  /\ PrunedAbsent(config, data)

(* None only where the field's default is None, at every level *)
RECURSIVE OnlyOptionalNone(_)
OnlyOptionalNone(v) ==
  IF v.k = "obj"
  THEN \A n \in DOMAIN v.f :
         IF v.f[n] = None THEN FieldOf(v.cls, n).default = None
         ELSE OnlyOptionalNone(v.f[n])
  ELSE IF v.k = "list" THEN \A i \in DOMAIN v.l : OnlyOptionalNone(v.l[i])
  ELSE TRUE

SystemSelectsOf(c) == c.f.output.f.system_select.l
NoEmptySignal(c) ==
  \A i \in DOMAIN SystemSelectsOf(c) : SystemSelectsOf(c)[i].f.signal \notin { None, Str("") }
NoLegacyUnit(c) ==
  VelocityOf(c).f.type = M("VelocityType", "SCU")
  => /\ VelocityOf(c).f.speed_unit \notin { Str("m/s"), Str("km/h") }
     /\ VelocityOf(c).f.angle_unit # Str("deg")

----------------------------------------------------------------------------
(* C1 as stated: for every Configuration, from_dict(to_dict(c)) equals c   *)
(* on every field the pruning rules do not remove, and the pruned fields   *)
(* are absent from the serialized mapping.                                 *)
C1_RoundTripEveryConfig == op = "round_trip" => RoundTripHolds

(* C1 amended: the round trip holds for every Configuration whose fields   *)
(* hold values of their declared types (None only in Optional fields),     *)
(* whose SystemSelect entries have a non-empty signal and whose velocity   *)
(* speed_unit and angle_unit hold no legacy token.                         *)
C1_RoundTrip ==
  ( /\ op = "round_trip"
    /\ OnlyOptionalNone(config) /\ NoEmptySignal(config) /\ NoLegacyUnit(config) )
  => RoundTripHolds

C1_Witness ==
  /\ op = "round_trip"
  /\ OnlyOptionalNone(config) /\ NoEmptySignal(config) /\ NoLegacyUnit(config)
  /\ VelocityOf(config).f.type = M("VelocityType", "ENU")
  /\ VelocityOf(config).f.speed = Num("99")
  /\ result.k = "obj"
  /\ VelocityOf(result).f.speed = Num("0.0")
  /\ VelocityOf(result).f.east = Num("1")

----------------------------------------------------------------------------
(* C2: whatever stale values a VelocityConfig holds, to_dict emits besides *)
(* type only the keys of the group its type selects: SCU -> speed, course, *)
(* up, speedUnit, angleUnit; ENU -> east, north, up, eastUnit, northUnit,  *)
(* upUnit; ECEF -> x, y, z, xUnit, yUnit, zUnit.                           *)
VelocityGroup(type) ==
  CASE type = M("VelocityType", "SCU") -> {"speed", "course", "up", "speedUnit", "angleUnit"}
    [] type = M("VelocityType", "ENU") ->
         {"east", "north", "up", "eastUnit", "northUnit", "upUnit"}
    [] type = M("VelocityType", "ECEF") -> {"x", "y", "z", "xUnit", "yUnit", "zUnit"}
    [] OTHER -> { }

C2_VelocityActiveGroupOnly ==
  Serialized
  => Keys(SerializedVelocity(data)) \ {"type"} \subseteq VelocityGroup(VelocityOf(config).f.type)

(* The same of the VelocityConfigs whose type is SCU, ENU or ECEF *)
C2_VelocityTyped ==
  VelocityOf(config).f.type # None => C2_VelocityActiveGroupOnly

C2_TypedWitness ==
  /\ op = "to_dict"
  /\ VelocityOf(config).f.type = M("VelocityType", "ENU")
  /\ VelocityOf(config).f.speed = Num("99")
  /\ VelocityOf(config).f.east = Num("1")
  /\ VelocityOf(config).f.x = Num("4")
  /\ Keys(SerializedVelocity(data)) =
       {"type", "east", "north", "up", "eastUnit", "northUnit", "upUnit"}

----------------------------------------------------------------------------
(* C3: the serialized ephemeris array is the subsequence of the in-memory  *)
(* list whose entries have include = true, in the original order, and no   *)
(* serialized entry carries an include key.                                *)
C3_EphemerisFilter ==
  Serialized =>
    LET kept == SelectSeq(config.f.ephemeris.l, IsIncluded)
        out == Get(data, "ephemeris").l
    IN  /\ Len(out) = Len(kept)
        /\ \A i \in DOMAIN out :
              /\ Get(out[i], "name") = kept[i].f.name
              /\ Keys(out[i]) \subseteq {"type", "name"}

C3_Witness ==
  /\ op = "to_dict"
  /\ Len(config.f.ephemeris.l) = 3
  /\ IsIncluded(config.f.ephemeris.l[1])
  /\ ~IsIncluded(config.f.ephemeris.l[2])
  /\ IsIncluded(config.f.ephemeris.l[3])
  /\ Len(Get(data, "ephemeris").l) = 2
  /\ Get(Get(data, "ephemeris").l[2], "name") = Str("c.rnx")

----------------------------------------------------------------------------
(* C5: a SystemSelect whose signal is empty or missing is serialized with  *)
(* the default signal of its constellation (GPS L1CA, BDS B1C, Galileo E1, *)
(* GLONASS G1, any other system L1CA); a non-empty signal is serialized    *)
(* unchanged.                                                              *)
ConstellationDefault(system) ==
  IF system = M("ConstellationType", "GPS") THEN "L1CA"
  ELSE IF system = M("ConstellationType", "BDS") THEN "B1C"
  ELSE IF system = M("ConstellationType", "GALILEO") THEN "E1"
  ELSE IF system = M("ConstellationType", "GLONASS") THEN "G1"
  ELSE "L1CA"

SerializedSelects(d) == Get(Get(d, "output"), "systemSelect").l

C5_SignalRepair ==
  Serialized =>
    /\ Len(SerializedSelects(data)) = Len(SystemSelectsOf(config))
    /\ \A i \in DOMAIN SystemSelectsOf(config) :
          LET sel == SystemSelectsOf(config)[i]
              out == SerializedSelects(data)[i]
          IN  /\ HasKey(out, "signal")
              /\ Get(out, "signal") =
                   IF sel.f.signal \in { None, Str("") }
                   THEN Str(ConstellationDefault(sel.f.system))
                   ELSE sel.f.signal

C5_Witness ==
  /\ op = "to_dict"
  /\ \E i \in DOMAIN SystemSelectsOf(config) :
       /\ SystemSelectsOf(config)[i].f.system = M("ConstellationType", "GLONASS")
       /\ SystemSelectsOf(config)[i].f.signal = Str("")
       /\ Get(SerializedSelects(data)[i], "signal") = Str("G1")

----------------------------------------------------------------------------
(* C6: to_dict leaves the in-memory Configuration unchanged, so an empty   *)
(* signal stays empty and excluded ephemeris entries stay in the list; and *)
(* from_dict stores the signal it reads, never the repaired one.           *)
SignalsAsRead ==
  ( op = "from_dict" /\ result.k = "obj" /\ HasKey(data, "output")
    /\ HasKey(Get(data, "output"), "systemSelect") )
  => \A i \in DOMAIN SerializedSelects(data) :
       SystemSelectsOf(result)[i].f.signal = Get(SerializedSelects(data)[i], "signal")

C6_ToDictLeavesConfig ==
  /\ [][ op' \in {"to_dict", "round_trip"} => config' = config ]_vars
  /\ []SignalsAsRead

C6_Witness ==
  /\ op = "to_dict"
  /\ \E i \in DOMAIN SystemSelectsOf(config) :
       /\ SystemSelectsOf(config)[i].f.signal = Str("")
       /\ Get(SerializedSelects(data)[i], "signal") # Str("")
  /\ result = None

----------------------------------------------------------------------------
(* C7: for every PositionConfig the LLA keys are emitted only when type =  *)
(* LLA, the ECEF keys only when type = ECEF, and never a key of both       *)
(* groups.                                                                 *)
LLAKeys == {"format", "longitude", "latitude", "altitude"}
ECEFKeys == {"x", "y", "z"}

PositionGroupsExclusive ==
  LET keys == Keys(SerializedPosition(data))
      type == PositionOf(config).f.type
  IN  /\ keys \cap LLAKeys # { } => type = M("PositionType", "LLA")
      /\ keys \cap ECEFKeys # { } => type = M("PositionType", "ECEF")
      /\ keys \cap LLAKeys = { } \/ keys \cap ECEFKeys = { }

C7_PositionGroups == Serialized => PositionGroupsExclusive

(* The same of the PositionConfigs whose type is LLA or ECEF *)
C7_PositionTyped ==
  PositionOf(config).f.type # None => C7_PositionGroups

C7_TypedWitness ==
  /\ op = "to_dict"
  /\ PositionOf(config).f.type = M("PositionType", "ECEF")
  /\ PositionOf(config).f.longitude = Num("-122.4194")
  /\ PositionOf(config).f.x = Num("-2700000.0")
  /\ Keys(SerializedPosition(data)) = {"type", "x", "y", "z"}

----------------------------------------------------------------------------
----------------------------------------------------------------------------
(* C4: after any sequence of time-type changes and update_config calls the *)
(* serialized time object holds, besides type, only fields of the group    *)
(* its type selects: year, month, day, hour, minute, second for UTC; week, *)
(* second for GPS, BDS and Galileo; leapYear, day, second for GLONASS.     *)
TimeGroup(type) ==
  IF type = M("TimeType", "UTC") THEN {"year", "month", "day", "hour", "minute", "second"}
  ELSE IF type = M("TimeType", "GLONASS") THEN {"leapYear", "day", "second"}
  ELSE {"week", "second"}

C4_TimeActiveGroupOnly ==
  Serialized =>
    Keys(Get(data, "time")) \ {"type"} \subseteq TimeGroup(config.f.time.f.type)

----------------------------------------------------------------------------
(* What a file with one key dropped, or one mapping emptied, is compared   *)
(* with: the Configuration loaded from the file as it was saved.           *)
AsSavedResult(fp) == LoadResults[[base |-> fp.base, at |-> << >>, edit |-> AsSaved]]

(* the object or value of a loaded tree at a place of the file *)
RECURSIVE ObjAt(_, _)
ObjAt(obj, p) ==
  IF p = << >> THEN obj
  ELSE IF "key" \in DOMAIN p[1] THEN ObjAt(obj.f[SnakeName[p[1].key]], Tail(p))
  ELSE ObjAt(obj.l[p[1].idx], Tail(p))

RECURSIVE ObjAssignAt(_, _, _)
ObjAssignAt(obj, p, v) ==
  IF p = << >> THEN v
  ELSE IF "key" \in DOMAIN p[1]
  THEN Obj(obj.cls, [obj.f EXCEPT ![SnakeName[p[1].key]] = ObjAssignAt(@, Tail(p), v)])
  ELSE List([obj.l EXCEPT ![p[1].idx] = ObjAssignAt(@, Tail(p), v)])

Front(p) == SubSeq(p, 1, Len(p) - 1)

(* the declared default of a field: a value, a fresh instance, or none *)
DeclaredDefault(cls, name) ==
  LET default == FieldOf(cls, name).default
  IN  IF default.k = "factory"
      THEN IF default.cls = "list" THEN List(<< >>) ELSE New(default.cls, << >>)
      ELSE default

HasDefault(cls, name) == FieldOf(cls, name).default # MISSING
AllHaveDefaults(cls) ==
  \A i \in DOMAIN dataclass_fields(cls) : dataclass_fields(cls)[i].default # MISSING

(* the field a dropped key belongs to *)
DroppedClass(fp) == ObjAt(AsSavedResult(fp), Front(fp.at)).cls
DroppedField(fp) == SnakeName[fp.at[Len(fp.at)].key]
ClearedClass(fp) == ObjAt(AsSavedResult(fp), fp.at).cls

KeysMissing == op = "from_dict" /\ file_path.edit \in { Drop, Clear }

(* the loaded Configuration with the missing fields at their defaults *)
WithDefaults(fp) ==
  IF fp.edit = Drop
  THEN ObjAssignAt(AsSavedResult(fp), fp.at,
                   DeclaredDefault(DroppedClass(fp), DroppedField(fp)))
  ELSE ObjAssignAt(AsSavedResult(fp), fp.at, New(ClearedClass(fp), << >>))

(* a field without default is among the missing ones *)
RequiredMissing(fp) ==
  IF fp.edit = Drop THEN ~HasDefault(DroppedClass(fp), DroppedField(fp))
  ELSE ~AllHaveDefaults(ClearedClass(fp))

(* C9 as stated: from_dict succeeds on every mapping with keys missing at  *)
(* any level, the elements of the lists included, and every field whose    *)
(* key is missing holds its default.                                       *)
C9_MissingKeysAnywhere ==
  KeysMissing => ( result.k = "obj" /\ ~RequiredMissing(file_path)
                   /\ result = WithDefaults(file_path) )

(* C9 amended: the same, as long as no present list element misses the key *)
(* of a field that has no default; when one does, from_dict raises         *)
(* TypeError.                                                              *)
C9_MissingKeys ==
  KeysMissing =>
    IF RequiredMissing(file_path) THEN result = Raise("TypeError")
    ELSE result.k = "obj" /\ result = WithDefaults(file_path)

C9_Witness ==
  /\ op = "from_dict"
  /\ file_path.edit = Drop
  /\ file_path.at = << K("trajectory"), K("trajectoryList"), I(1), K("type") >>
  /\ result.k = "obj"
  /\ ObjAt(result, file_path.at) = FieldOf("TrajectorySegment", "type").default
  /\ ObjAt(AsSavedResult(file_path), file_path.at) # ObjAt(result, file_path.at)
  /\ ObjAt(result, Front(file_path.at)).f.time
       = ObjAt(AsSavedResult(file_path), Front(file_path.at)).f.time

----------------------------------------------------------------------------
(* C10: an enum-typed field whose value in the mapping is a string that is *)
(* no wire value of the enum is None in the result, no error is raised,    *)
(* and every other field is as it is without the bad value.                *)
BadEnumString ==
  /\ op = "from_dict"
  /\ file_path.edit \in { Set(Str("Bogus")), Set(Str("")) }
  /\ FieldOf(DroppedClass(file_path), DroppedField(file_path)).type.t = "enum"

C10_BadEnumIsNone ==
  BadEnumString =>
    /\ result.k = "obj"
    /\ ObjAt(result, file_path.at) = None
    /\ result = ObjAssignAt(AsSavedResult(file_path), file_path.at, None)

C10_Witness ==
  /\ BadEnumString
  /\ file_path.at = << K("output"), K("systemSelect"), I(1), K("system") >>
  /\ ObjAt(AsSavedResult(file_path), file_path.at) = M("ConstellationType", "GPS")
  /\ ObjAt(result, file_path.at) = None
  /\ SystemSelectsOf(result)[1].f.signal = SystemSelectsOf(AsSavedResult(file_path))[1].f.signal

----------------------------------------------------------------------------
(* C11: keys of the mapping that name no field of the class they are read  *)
(* for are ignored at every nesting level: from_dict of the mapping is     *)
(* from_dict of the mapping without them, and a key added to a file that   *)
(* loads raises no error.                                                  *)
RECURSIVE WithoutUnknownKeys(_, _)
WithoutUnknownKeys(v, type) ==
  IF type.t = "dc" /\ v.k = "dict"
  THEN LET named == SelectSeq(v.items,
                              LAMBDA it : HasField(type.cls, SnakeName[it.key]))
       IN  Dict([ i \in DOMAIN named |->
                    Item(named[i].key,
                         WithoutUnknownKeys(named[i].v,
                           FieldOf(type.cls, SnakeName[named[i].key]).type)) ])
  ELSE IF type.t = "args" /\ v.k = "list"
  THEN List([ j \in DOMAIN v.l |-> WithoutUnknownKeys(v.l[j], type.first) ])
  ELSE v

UnknownKeyAdded == op = "from_dict" /\ file_path.edit.op = "add"

C11_UnknownKeysIgnored ==
  op = "from_dict" =>
    /\ result = from_dict(WithoutUnknownKeys(data, TDc("GNSSSignalSimConfig")))
    /\ UnknownKeyAdded =>
         /\ WithoutUnknownKeys(data, TDc("GNSSSignalSimConfig")) = SavedFile(file_path.base)
         /\ result = AsSavedResult(file_path)
         /\ result.k = "obj"

C11_Witness ==
  /\ UnknownKeyAdded
  /\ file_path.at = << K("output"), K("systemSelect"), I(1) >>
  /\ file_path.edit.v = FutureValue
  /\ HasKey(At(data, file_path.at), "futureKey")
  /\ result.k = "obj"
  /\ result = AsSavedResult(file_path)

----------------------------------------------------------------------------
(* C12: during deserialization "m/s" becomes "mps" and "km/h" becomes      *)
(* "kph" in every field that carries a speed unit, "deg" becomes "degree"  *)
(* in the field that carries an angle unit, and every other value is       *)
(* stored unchanged.                                                       *)
SpeedUnitFields ==
  { "speed_unit", "east_unit", "north_unit", "up_unit", "x_unit", "y_unit", "z_unit" }
AngleUnitFields == { "angle_unit" }

Upgraded(field_name, unit) ==
  IF field_name \in SpeedUnitFields /\ unit = "m/s" THEN "mps"
  ELSE IF field_name \in SpeedUnitFields /\ unit = "km/h" THEN "kph"
  ELSE IF field_name \in AngleUnitFields /\ unit = "deg" THEN "degree"
  ELSE unit

LegacyUnitRead ==
  /\ op = "from_dict"
  /\ file_path.edit.op = "set"
  /\ file_path.edit.v.s \in LegacyUnits

C12_LegacyUnitsUpgraded ==
  LegacyUnitRead =>
    /\ result.k = "obj"
    /\ result = ObjAssignAt(AsSavedResult(file_path), file_path.at,
                            Str(Upgraded(DroppedField(file_path), file_path.edit.v.s)))

(* the same for the two fields named speed_unit and angle_unit, and no     *)
(* change of the string in any other field                                 *)
C12_NamedUnitsUpgraded ==
  LegacyUnitRead =>
    /\ result.k = "obj"
    /\ result = ObjAssignAt(AsSavedResult(file_path), file_path.at,
                            legacy_unit(DroppedField(file_path), file_path.edit.v))

C12_NamedWitness ==
  /\ LegacyUnitRead
  /\ file_path.at = << K("trajectory"), K("initVelocity"), K("speedUnit") >>
  /\ file_path.edit.v = Str("km/h")
  /\ ObjAt(result, file_path.at) = Str("kph")

----------------------------------------------------------------------------
(* C13: for every field name f of every class of the model, to_dict emits  *)
(* to_camel_case(f) at whatever depth the field sits, and from_dict maps   *)
(* that key back to the same field: to_snake_case(to_camel_case(f)) = f.   *)
Classes ==
  { "TimeConfig", "PositionConfig", "VelocityConfig", "TrajectorySegment",
    "TrajectoryConfig", "EphemerisConfig", "SystemSelect", "SatelliteMask",
    "OutputConfig", "PowerConfig", "SignalPowerValue", "SignalPower",
    "SignalPowerConfig", "AlmanacConfig", "OutputSettings", "GNSSSignalSimConfig" }

FieldNames(cls) == { dataclass_fields(cls)[i].name : i \in DOMAIN dataclass_fields(cls) }

IsLowerCamel(key) ==
  /\ key \in DOMAIN Chars
  /\ islower(chars(key)[1])
  /\ \A i \in DOMAIN chars(key) : chars(key)[i] # "_"

C13_FieldNamesRoundTrip ==
  /\ \A cls \in Classes : \A f \in FieldNames(cls) :
        /\ IsLowerCamel(CamelName[f])
        /\ SnakeName[CamelName[f]] = f
  /\ Serialized =>
        /\ \A p \in Places(data) :
              "key" \in DOMAIN p[Len(p)] => IsLowerCamel(p[Len(p)].key)
        /\ WithoutUnknownKeys(data, TDc("GNSSSignalSimConfig")) = data

C13_Witness ==
  /\ Serialized
  /\ HasKey(Get(data, "trajectory"), "initPosition")
  /\ << K("power"), K("signalPower"), I(1), K("powerValue"), I(1), K("unit") >>
       \in Places(data)
  /\ SnakeName["powerValue"] = "power_value"
  /\ HasField("SignalPower", "power_value")

----------------------------------------------------------------------------
(* core/data/time_conversions.py.  A naive datetime is the number of whole *)
(* seconds from 2000-01-01 00:00:00 to it, negative before; a timedelta is *)
(* a number of seconds.                                                    *)

(* datetime(year, month, day, hour, minute, second) *)
datetime(year, month, day, hour, minute, second) ==
  LET is_leap(y) == y % 4 = 0 /\ (y % 100 # 0 \/ y % 400 = 0)
      days_before_year(y) ==
        (y - 1) * 365 + (y - 1) \div 4 - (y - 1) \div 100 + (y - 1) \div 400
      days_in_month == << 31, 28, 31, 30, 31, 30, 31, 31, 30, 31, 30, 31 >>
      days_before_month[m \in 1..12] ==
        IF m = 1 THEN 0
        ELSE days_before_month[m - 1] + days_in_month[m - 1]
             + (IF m - 1 = 2 /\ is_leap(year) THEN 1 ELSE 0)
      ordinal == days_before_year(year) + days_before_month[month] + day
  IN  (ordinal - (days_before_year(2000) + 1)) * 86400
      + hour * 3600 + minute * 60 + second

(* the years datetimes of the model fall in *)
MinYear == 1968
MaxYear == 2030

(* datetime.year and datetime.timetuple().tm_yday *)
year(t) ==
  CHOOSE y \in MinYear..MaxYear :
    datetime(y, 1, 1, 0, 0, 0) <= t /\ t < datetime(y + 1, 1, 1, 0, 0, 0)
tm_yday(t) == (t - datetime(year(t), 1, 1, 0, 0, 0)) \div 86400 + 1

TimeConversion(original_time, converted_time, original_system, target_system, leap_seconds_applied, conversion_accuracy) ==
  Obj("TimeConversion",
      [original_time |-> original_time, converted_time |-> converted_time,
       original_system |-> original_system, target_system |-> target_system,
       leap_seconds_applied |-> leap_seconds_applied,
       conversion_accuracy |-> conversion_accuracy])

Tuple(l) == [k |-> "tuple", l |-> l]

GPS_EPOCH == datetime(1980, 1, 6, 0, 0, 0)
BDS_EPOCH == datetime(2006, 1, 1, 0, 0, 0)
GALILEO_EPOCH == datetime(1999, 8, 22, 0, 0, 0)
GLONASS_UTC_OFFSET == 3 * 3600

LEAP_SECONDS_TABLE ==
  << << datetime(1972, 7, 1, 0, 0, 0), 1 >>, << datetime(1973, 1, 1, 0, 0, 0), 2 >>,
     << datetime(1974, 1, 1, 0, 0, 0), 3 >>, << datetime(1975, 1, 1, 0, 0, 0), 4 >>,
     << datetime(1976, 1, 1, 0, 0, 0), 5 >>, << datetime(1977, 1, 1, 0, 0, 0), 6 >>,
     << datetime(1978, 1, 1, 0, 0, 0), 7 >>, << datetime(1979, 1, 1, 0, 0, 0), 8 >>,
     << datetime(1980, 1, 1, 0, 0, 0), 9 >>, << datetime(1981, 7, 1, 0, 0, 0), 10 >>,
     << datetime(1982, 7, 1, 0, 0, 0), 11 >>, << datetime(1983, 7, 1, 0, 0, 0), 12 >>,
     << datetime(1985, 7, 1, 0, 0, 0), 13 >>, << datetime(1988, 1, 1, 0, 0, 0), 14 >>,
     << datetime(1990, 1, 1, 0, 0, 0), 15 >>, << datetime(1991, 1, 1, 0, 0, 0), 16 >>,
     << datetime(1992, 7, 1, 0, 0, 0), 17 >>, << datetime(1993, 7, 1, 0, 0, 0), 18 >>,
     << datetime(1994, 7, 1, 0, 0, 0), 19 >>, << datetime(1996, 1, 1, 0, 0, 0), 20 >>,
     << datetime(1997, 7, 1, 0, 0, 0), 21 >>, << datetime(1999, 1, 1, 0, 0, 0), 22 >>,
     << datetime(2006, 1, 1, 0, 0, 0), 23 >>, << datetime(2009, 1, 1, 0, 0, 0), 24 >>,
     << datetime(2012, 7, 1, 0, 0, 0), 25 >>, << datetime(2015, 7, 1, 0, 0, 0), 26 >>,
     << datetime(2017, 1, 1, 0, 0, 0), 27 >> >>

(* the loop of _get_leap_seconds_for_date from entry i on: the count kept  *)
(* so far is replaced while the date has reached the entry, and the loop   *)
(* breaks at the first entry the date has not reached                      *)
RECURSIVE leap_seconds_from(_, _, _, _)
(* an entry counting only from the second after its date *)
leap_seconds_from_strict(table, i, date, leap_seconds) ==
  IF i > Len(table) THEN leap_seconds
  ELSE IF date > table[i][1]
  THEN leap_seconds_from(table, i + 1, date, table[i][2])
  ELSE leap_seconds

leap_seconds_from(table, i, date, leap_seconds) ==
  IF i > Len(table) THEN leap_seconds
  ELSE IF date >= table[i][1]
  THEN leap_seconds_from(table, i + 1, date, table[i][2])
  ELSE leap_seconds

get_leap_seconds_for_date(date) == leap_seconds_from(LEAP_SECONDS_TABLE, 1, date, 0)

gps_to_utc(week, second) ==
  LET gps_time == GPS_EPOCH + week * 604800 + second
      leap_seconds == get_leap_seconds_for_date(gps_time)
      utc_time == gps_time - leap_seconds
  IN  TimeConversion(gps_time, utc_time, M("TimeSystem", "GPS"), M("TimeSystem", "UTC"),
                     leap_seconds, "exact")

(* the week and second counted from the UTC time itself, no leap seconds added *)
utc_to_gps_unadjusted(utc_time) ==
  LET total_seconds == utc_time - GPS_EPOCH
  IN  Tuple(<< total_seconds \div (7 * 24 * 3600), total_seconds % (7 * 24 * 3600) >>)

utc_to_gps(utc_time) ==
  LET leap_seconds == get_leap_seconds_for_date(utc_time)
      gps_time == utc_time + leap_seconds
      total_seconds == gps_time - GPS_EPOCH
  IN  Tuple(<< total_seconds \div (7 * 24 * 3600), total_seconds % (7 * 24 * 3600) >>)

(* only the leap seconds since the BDS epoch taken off: the 14 of the      *)
(* unused bds_epoch_leap_seconds kept in                                   *)
bds_to_utc_since_epoch(week, second) ==
  LET bds_time == BDS_EPOCH + week * 604800 + second
      current_leap_seconds == get_leap_seconds_for_date(bds_time) - 14
      utc_time == bds_time - current_leap_seconds
  IN  TimeConversion(bds_time, utc_time, M("TimeSystem", "BDS"), M("TimeSystem", "UTC"),
                     current_leap_seconds, "exact")

bds_to_utc(week, second) ==
  LET bds_time == BDS_EPOCH + week * 604800 + second
      current_leap_seconds == get_leap_seconds_for_date(bds_time)
      utc_time == bds_time - current_leap_seconds
  IN  TimeConversion(bds_time, utc_time, M("TimeSystem", "BDS"), M("TimeSystem", "UTC"),
                     current_leap_seconds, "exact")

utc_to_bds(utc_time) ==
  LET leap_seconds == get_leap_seconds_for_date(utc_time)
      bds_time == utc_time + leap_seconds
      total_seconds == bds_time - BDS_EPOCH
  IN  Tuple(<< total_seconds \div (7 * 24 * 3600), total_seconds % (7 * 24 * 3600) >>)

galileo_to_utc(week, second) ==
  LET galileo_time == GALILEO_EPOCH + week * 604800 + second
      current_leap_seconds == get_leap_seconds_for_date(galileo_time)
      utc_time == galileo_time - current_leap_seconds
  IN  TimeConversion(galileo_time, utc_time, M("TimeSystem", "GALILEO"),
                     M("TimeSystem", "UTC"), current_leap_seconds, "exact")

utc_to_galileo(utc_time) ==
  LET leap_seconds == get_leap_seconds_for_date(utc_time)
      galileo_time == utc_time + leap_seconds
      total_seconds == galileo_time - GALILEO_EPOCH
  IN  Tuple(<< total_seconds \div (7 * 24 * 3600), total_seconds % (7 * 24 * 3600) >>)

(* the leap seconds at the GLONASS time taken off as for the other systems *)
glonass_to_utc_with_leap_seconds(leap_year, day, second) ==
  LET actual_year == 1996 + leap_year
      glonass_time == datetime(actual_year, 1, 1, 0, 0, 0) + (day - 1) * 86400 + second
      leap_seconds == get_leap_seconds_for_date(glonass_time)
      utc_time == glonass_time - GLONASS_UTC_OFFSET - leap_seconds
  IN  TimeConversion(glonass_time, utc_time, M("TimeSystem", "GLONASS"),
                     M("TimeSystem", "UTC"), leap_seconds, "exact")

glonass_to_utc(leap_year, day, second) ==
  LET actual_year == 1996 + leap_year
      glonass_time == datetime(actual_year, 1, 1, 0, 0, 0) + (day - 1) * 86400 + second
      utc_time == glonass_time - GLONASS_UTC_OFFSET
  IN  TimeConversion(glonass_time, utc_time, M("TimeSystem", "GLONASS"),
                     M("TimeSystem", "UTC"), 0, "exact")

utc_to_glonass(utc_time) ==
  LET moscow_time == utc_time + GLONASS_UTC_OFFSET
      leap_year == year(moscow_time) - 1996
      day_of_year == tm_yday(moscow_time)
      hour == (moscow_time % 86400) \div 3600
      minute == (moscow_time % 3600) \div 60
      second == moscow_time % 60
      seconds_into_day == hour * 3600 + minute * 60 + second
  IN  Tuple(<< leap_year, day_of_year, seconds_into_day >>)

(* GPS as the last branch: whatever is none of the other systems is GPS time *)
convert_to_utc_defaulting(time_system, kwargs) ==
  IF time_system = M("TimeSystem", "BDS")
  THEN IF {"week", "second"} \subseteq DOMAIN kwargs
       THEN bds_to_utc(kwargs.week, kwargs.second) ELSE Raise("KeyError")
  ELSE IF time_system = M("TimeSystem", "GALILEO")
  THEN IF {"week", "second"} \subseteq DOMAIN kwargs
       THEN galileo_to_utc(kwargs.week, kwargs.second) ELSE Raise("KeyError")
  ELSE IF time_system = M("TimeSystem", "GLONASS")
  THEN IF {"leap_year", "day", "second"} \subseteq DOMAIN kwargs
       THEN glonass_to_utc(kwargs.leap_year, kwargs.day, kwargs.second)
       ELSE Raise("KeyError")
  ELSE IF time_system = M("TimeSystem", "UTC")
  THEN IF "datetime" \in DOMAIN kwargs
       THEN TimeConversion(kwargs.datetime, kwargs.datetime, M("TimeSystem", "UTC"),
                           M("TimeSystem", "UTC"), 0, "exact")
       ELSE Raise("KeyError")
  ELSE IF {"week", "second"} \subseteq DOMAIN kwargs
  THEN gps_to_utc(kwargs.week, kwargs.second)
  ELSE Raise("KeyError")

(* kwargs is a function from the keyword names given to their values;      *)
(* kwargs[name] of a name not given raises KeyError                        *)
convert_to_utc(time_system, kwargs) ==
  IF time_system = M("TimeSystem", "GPS")
  THEN IF {"week", "second"} \subseteq DOMAIN kwargs
       THEN gps_to_utc(kwargs.week, kwargs.second) ELSE Raise("KeyError")
  ELSE IF time_system = M("TimeSystem", "BDS")
  THEN IF {"week", "second"} \subseteq DOMAIN kwargs
       THEN bds_to_utc(kwargs.week, kwargs.second) ELSE Raise("KeyError")
  ELSE IF time_system = M("TimeSystem", "GALILEO")
  THEN IF {"week", "second"} \subseteq DOMAIN kwargs
       THEN galileo_to_utc(kwargs.week, kwargs.second) ELSE Raise("KeyError")
  ELSE IF time_system = M("TimeSystem", "GLONASS")
  THEN IF {"leap_year", "day", "second"} \subseteq DOMAIN kwargs
       THEN glonass_to_utc(kwargs.leap_year, kwargs.day, kwargs.second)
       ELSE Raise("KeyError")
  ELSE IF time_system = M("TimeSystem", "UTC")
  THEN IF "datetime" \in DOMAIN kwargs
       THEN TimeConversion(kwargs.datetime, kwargs.datetime, M("TimeSystem", "UTC"),
                           M("TimeSystem", "UTC"), 0, "exact")
       ELSE Raise("KeyError")
  ELSE Raise("ValueError")

convert_from_utc(utc_time, target_system) ==
  IF target_system = M("TimeSystem", "GPS")
  THEN Dict(<< Item("week", utc_to_gps(utc_time).l[1]),
               Item("second", utc_to_gps(utc_time).l[2]) >>)
  ELSE IF target_system = M("TimeSystem", "BDS")
  THEN Dict(<< Item("week", utc_to_bds(utc_time).l[1]),
               Item("second", utc_to_bds(utc_time).l[2]) >>)
  ELSE IF target_system = M("TimeSystem", "GALILEO")
  THEN Dict(<< Item("week", utc_to_galileo(utc_time).l[1]),
               Item("second", utc_to_galileo(utc_time).l[2]) >>)
  ELSE IF target_system = M("TimeSystem", "GLONASS")
  THEN Dict(<< Item("leap_year", utc_to_glonass(utc_time).l[1]),
               Item("day", utc_to_glonass(utc_time).l[2]),
               Item("second", utc_to_glonass(utc_time).l[3]) >>)
  ELSE IF target_system = M("TimeSystem", "UTC")
  THEN Dict(<< Item("datetime", utc_time) >>)
  ELSE Raise("ValueError")

(* .converted_time of a result, an exception passing through *)
converted_time(conversion) ==
  IF conversion.k = "raise" THEN conversion ELSE conversion.f.converted_time

(* TimeSystem(time_system) raises ValueError for a string that is no value *)
(* of the enum                                                             *)
convert_time_to_utc(time_system, kwargs) ==
  IF enum_by_value("TimeSystem", time_system).k = "raise"
  THEN enum_by_value("TimeSystem", time_system)
  ELSE converted_time(convert_to_utc(enum_by_value("TimeSystem", time_system), kwargs))

(* The arguments the functions are called with: weeks and seconds around  *)
(* the epochs and around the entries of the leap second table (1930, 574   *)
(* and 906 weeks after the three epochs it is 2017-01-01 00:00:00), UTC    *)
(* times around the same instants, system tags of and outside TimeSystem.  *)
WeekInputs == { -1, 0, 1, 574, 906, 1930, 2190 }
SecondInputs == { 0, 26, 27, 259200, 604799, 604800 }
LeapYearInputs == { 0, 28, 29 }
DayInputs == { 1, 60, 366 }
DaySecondInputs == { 0, 10799, 10800, 86399 }
DateInputs ==
  { datetime(d[1], d[2], d[3], 0, 0, 0) + offset :
      d \in { << 1970, 1, 1 >>, << 1972, 7, 1 >>, << 1980, 1, 6 >>, << 1999, 8, 22 >>,
              << 2006, 1, 1 >>, << 2017, 1, 1 >>, << 2021, 12, 29 >>, << 2024, 1, 1 >> },
      offset \in { -10800, -27, -1, 0, 1, 43200 } }
SystemInputs ==
  { M("TimeSystem", m) : m \in DOMAIN EnumMembers.TimeSystem }
  \cup { Str("GPS"), None, M("TimeType", "GPS"), M("ConstellationType", "QZSS") }
TagInputs == { "UTC", "GPS", "GLONASS", "BDS", "Galileo", "GALILEO", "QZSS", "gps", "" }
KwargsInputs ==
  { [week |-> 2190, second |-> 259200],
    [leap_year |-> 28, day |-> 1, second |-> 0],
    [datetime |-> datetime(2024, 1, 1, 0, 0, 0)] }

DocumentUnchanged ==
  /\ UNCHANGED << config, data, result, op, file_path, parser >>
  /\ OthersUnchanged
  /\ TabsUnchanged

(* A caller calls one of the functions with any of the arguments, takes    *)
(* what it returns or raises, and may call again.                          *)
NextConv ==
  \/ \E date \in DateInputs :
       /\ call = NoCall
       /\ call' = [fn |-> "_get_leap_seconds_for_date", args |-> << date >>]
       /\ returned' = get_leap_seconds_for_date(date)
       /\ DocumentUnchanged
  \/ \E week \in WeekInputs, second \in SecondInputs :
       /\ call = NoCall
       /\ call' = [fn |-> "gps_to_utc", args |-> << week, second >>]
       /\ returned' = gps_to_utc(week, second)
       /\ DocumentUnchanged
  \/ \E week \in WeekInputs, second \in SecondInputs :
       /\ call = NoCall
       /\ call' = [fn |-> "bds_to_utc", args |-> << week, second >>]
       /\ returned' = bds_to_utc(week, second)
       /\ DocumentUnchanged
  \/ \E week \in WeekInputs, second \in SecondInputs :
       /\ call = NoCall
       /\ call' = [fn |-> "galileo_to_utc", args |-> << week, second >>]
       /\ returned' = galileo_to_utc(week, second)
       /\ DocumentUnchanged
  \/ \E utc_time \in DateInputs :
       /\ call = NoCall
       /\ call' = [fn |-> "utc_to_gps", args |-> << utc_time >>]
       /\ returned' = utc_to_gps(utc_time)
       /\ DocumentUnchanged
  \/ \E utc_time \in DateInputs :
       /\ call = NoCall
       /\ call' = [fn |-> "utc_to_bds", args |-> << utc_time >>]
       /\ returned' = utc_to_bds(utc_time)
       /\ DocumentUnchanged
  \/ \E utc_time \in DateInputs :
       /\ call = NoCall
       /\ call' = [fn |-> "utc_to_galileo", args |-> << utc_time >>]
       /\ returned' = utc_to_galileo(utc_time)
       /\ DocumentUnchanged
  \/ \E leap_year \in LeapYearInputs, day \in DayInputs, second \in DaySecondInputs :
       /\ call = NoCall
       /\ call' = [fn |-> "glonass_to_utc", args |-> << leap_year, day, second >>]
       /\ returned' = glonass_to_utc(leap_year, day, second)
       /\ DocumentUnchanged
  \/ \E utc_time \in DateInputs :
       /\ call = NoCall
       /\ call' = [fn |-> "utc_to_glonass", args |-> << utc_time >>]
       /\ returned' = utc_to_glonass(utc_time)
       /\ DocumentUnchanged
  \/ \E time_system \in SystemInputs, kwargs \in KwargsInputs :
       /\ call = NoCall
       /\ call' = [fn |-> "convert_to_utc", args |-> << time_system, kwargs >>]
       /\ returned' = convert_to_utc(time_system, kwargs)
       /\ DocumentUnchanged
  \/ \E utc_time \in DateInputs, target_system \in SystemInputs :
       /\ call = NoCall
       /\ call' = [fn |-> "convert_from_utc", args |-> << utc_time, target_system >>]
       /\ returned' = convert_from_utc(utc_time, target_system)
       /\ DocumentUnchanged
  \/ \E time_system \in TagInputs, kwargs \in KwargsInputs :
       /\ call = NoCall
       /\ call' = [fn |-> "convert_time_to_utc", args |-> << time_system, kwargs >>]
       /\ returned' = convert_time_to_utc(time_system, kwargs)
       /\ DocumentUnchanged
  \/ /\ call # NoCall
     /\ call' = NoCall
     /\ returned' = None
     /\ DocumentUnchanged

SpecConv == InitTime /\ [][NextConv]_vars

----------------------------------------------------------------------------
(* What the properties of the conversions speak of *)
ToUtcCalled == call.fn \in { "gps_to_utc", "bds_to_utc", "galileo_to_utc" }
FromUtcCalled == call.fn \in { "utc_to_gps", "utc_to_bds", "utc_to_galileo" }

EpochOf(fn) ==
  CASE fn \in { "gps_to_utc", "utc_to_gps" } -> GPS_EPOCH
    [] fn \in { "bds_to_utc", "utc_to_bds" } -> BDS_EPOCH
    [] fn \in { "galileo_to_utc", "utc_to_galileo" } -> GALILEO_EPOCH

(* the conversion back of the function called *)
Back(fn, utc_time) ==
  CASE fn = "gps_to_utc" -> utc_to_gps(utc_time)
    [] fn = "bds_to_utc" -> utc_to_bds(utc_time)
    [] fn = "galileo_to_utc" -> utc_to_galileo(utc_time)

LeapDates == { LEAP_SECONDS_TABLE[i][1] : i \in DOMAIN LEAP_SECONDS_TABLE }

InWeek == call.args[1] >= 0 /\ call.args[2] >= 0 /\ call.args[2] < 604800

(* C14 as stated: for GPS, BDS and Galileo, utc_to_S(S_to_utc(w, s)) is    *)
(* (w, s) for every week w >= 0 and second 0 <= s < 604800 whose UTC       *)
(* instant is not at a leap-second boundary: not the instant an entry of   *)
(* the table takes effect, nor the second before it.                       *)
C14_RoundTripOffBoundary ==
  ( ToUtcCalled /\ InWeek
    /\ \A date \in LeapDates : returned.f.converted_time \notin { date - 1, date } )
  => Back(call.fn, returned.f.converted_time) = Tuple(<< call.args[1], call.args[2] >>)

(* C14 amended: the same whenever no entry of the table takes effect after *)
(* the UTC instant and up to the system time it was computed from, that is *)
(* within leap_seconds_applied seconds after the UTC instant.  S_to_utc    *)
(* takes the count at the system time, utc_to_S at the UTC time.           *)
C14_RoundTrip ==
  ( ToUtcCalled /\ InWeek
    /\ \A date \in LeapDates :
         ~( returned.f.converted_time < date /\ date <= returned.f.original_time ) )
  => Back(call.fn, returned.f.converted_time) = Tuple(<< call.args[1], call.args[2] >>)

C14_Witness ==
  /\ call = [fn |-> "gps_to_utc", args |-> << 2190, 259200 >>]
  /\ returned.f.converted_time = datetime(2021, 12, 28, 23, 59, 33)
  /\ utc_to_gps(returned.f.converted_time) = Tuple(<< 2190, 259200 >>)

----------------------------------------------------------------------------
(* C15: for GPS, BDS and Galileo and every (week, second), S_to_utc        *)
(* returns utc = epoch_S + week * 604800 s + second - L with               *)
(* leap_seconds_applied = L, L being the count of the table effective at   *)
(* the instant epoch_S + week * 604800 s + second, and the epochs being    *)
(* 1980-01-06, 2006-01-01 and 1999-08-22, 00:00:00.                        *)
EffectiveAt(t) ==
  LET reached == { i \in DOMAIN LEAP_SECONDS_TABLE : LEAP_SECONDS_TABLE[i][1] <= t }
  IN  IF reached = { } THEN 0
      ELSE LEAP_SECONDS_TABLE[CHOOSE i \in reached :
                                \A j \in reached :
                                  LEAP_SECONDS_TABLE[j][1] <= LEAP_SECONDS_TABLE[i][1]][2]

StatedEpoch(fn) ==
  CASE fn = "gps_to_utc" -> datetime(1980, 1, 6, 0, 0, 0)
    [] fn = "bds_to_utc" -> datetime(2006, 1, 1, 0, 0, 0)
    [] fn = "galileo_to_utc" -> datetime(1999, 8, 22, 0, 0, 0)

SystemInstant == StatedEpoch(call.fn) + call.args[1] * 604800 + call.args[2]

----------------------------------------------------------------------------
(* C16: the leap second lookup returns, for every date, the count of the   *)
(* last entry of the table whose date does not exceed it, an entry dated   *)
(* exactly the date included, and 0 before the first entry (1972-07-01);   *)
(* so the count never decreases from a date to a later one and is never    *)
(* above 27.                                                               *)
LookupCalled == call.fn = "_get_leap_seconds_for_date"

C16_LeapLookup ==
  LookupCalled =>
    /\ returned = EffectiveAt(call.args[1])
    /\ \A i \in DOMAIN LEAP_SECONDS_TABLE :
         call.args[1] = LEAP_SECONDS_TABLE[i][1] => returned = LEAP_SECONDS_TABLE[i][2]
    /\ call.args[1] < datetime(1972, 7, 1, 0, 0, 0) => returned = 0
    /\ \A later \in DateInputs :
         call.args[1] < later => returned <= get_leap_seconds_for_date(later)
    /\ returned <= 27

C16_Witness ==
  /\ LookupCalled
  /\ call.args[1] = datetime(2006, 1, 1, 0, 0, 0)
  /\ returned = 23
  /\ get_leap_seconds_for_date(call.args[1] - 1) = 22

----------------------------------------------------------------------------
(* C17: for GPS, BDS and Galileo and every UTC input, utc_to_S returns     *)
(* week = floor(total / 604800) and secondOfWeek = total mod 604800, where *)
(* total = (utc + leap seconds at utc) - epoch_S in seconds, and the       *)
(* result always has week >= 0, 0 <= secondOfWeek < 604800 and             *)
(* week * 604800 + secondOfWeek = total.                                   *)
TotalSeconds == call.args[1] + EffectiveAt(call.args[1]) - EpochOf(call.fn)

Decomposed ==
  /\ returned.l[1] * 604800 <= TotalSeconds
  /\ TotalSeconds < (returned.l[1] + 1) * 604800
  /\ returned.l[2] = TotalSeconds - returned.l[1] * 604800
  /\ 0 <= returned.l[2] /\ returned.l[2] < 604800

C17_FromUtc == FromUtcCalled => ( Decomposed /\ returned.l[1] >= 0 )

(* the decomposition alone, the sign of the week left open *)
C17_Decomposition == FromUtcCalled => Decomposed

C17_DecompositionWitness ==
  /\ call = [fn |-> "utc_to_galileo", args |-> << datetime(2021, 12, 29, 0, 0, 0) >>]
  /\ returned = Tuple(<< 1166, 259227 >>)

----------------------------------------------------------------------------
(* C18: the GLONASS conversions never consult the leap second table:       *)
(* glonass_to_utc(leapYear, day, second) is (1996 + leapYear)-01-01 plus   *)
(* day - 1 days plus second, less 3 h, with leap_seconds_applied = 0, and  *)
(* utc_to_glonass is the decomposition of utc + 3 h; leapYear 28, day 1,   *)
(* second 0 converts to UTC 2023-12-31 21:00:00.                           *)
MoscowTime(leap_year, day, second) ==
  datetime(1996 + leap_year, 1, 1, 0, 0, 0) + (day - 1) * 86400 + second

C18_Glonass ==
  /\ call.fn = "glonass_to_utc" =>
       /\ returned.f.converted_time
            = MoscowTime(call.args[1], call.args[2], call.args[3]) - 3 * 3600
       /\ returned.f.leap_seconds_applied = 0
  /\ call.fn = "utc_to_glonass" =>
       /\ MoscowTime(returned.l[1], returned.l[2], returned.l[3]) = call.args[1] + 3 * 3600
       /\ MoscowTime(returned.l[1], 1, 0) <= call.args[1] + 3 * 3600
       /\ call.args[1] + 3 * 3600 < MoscowTime(returned.l[1] + 1, 1, 0)
       /\ 0 <= returned.l[3] /\ returned.l[3] < 86400
  /\ glonass_to_utc(28, 1, 0).f.converted_time = datetime(2023, 12, 31, 21, 0, 0)

C18_Witness ==
  /\ call = [fn |-> "glonass_to_utc", args |-> << 28, 1, 0 >>]
  /\ returned.f.original_time = datetime(2024, 1, 1, 0, 0, 0)
  /\ returned.f.converted_time = datetime(2023, 12, 31, 21, 0, 0)
  /\ get_leap_seconds_for_date(returned.f.original_time) = 27

----------------------------------------------------------------------------
(* C19: a system tag that is none of the supported time systems makes      *)
(* convert_time_to_utc, convert_to_utc and convert_from_utc fail with an   *)
(* error: no such call returns a time value or falls back to another       *)
(* system.                                                                 *)
Supported == { M("TimeSystem", m) : m \in {"UTC", "GPS", "GLONASS", "BDS", "GALILEO"} }
SupportedNames == { "UTC", "GPS", "GLONASS", "BDS", "Galileo" }

UnsupportedTag ==
  \/ call.fn = "convert_to_utc" /\ call.args[1] \notin Supported
  \/ call.fn = "convert_from_utc" /\ call.args[2] \notin Supported
  \/ call.fn = "convert_time_to_utc" /\ call.args[1] \notin SupportedNames

C19_UnsupportedTagFails ==
  UnsupportedTag => ( returned.k = "raise" /\ returned = Raise("ValueError") )

C19_Witness ==
  /\ call.fn = "convert_time_to_utc"
  /\ call.args[1] = "GALILEO"
  /\ "week" \in DOMAIN call.args[2]
  /\ returned = Raise("ValueError")

----------------------------------------------------------------------------
(* core/data/rinex_parser.py.  A file is the sequence of its lines as      *)
(* readlines() gives them, a line the sequence of its characters with the  *)
(* newline that ends it.                                                   *)

Digits == << "0", "1", "2", "3", "4", "5", "6", "7", "8", "9" >>
Whitespace == { " ", "\t", "\r", "\n" }

(* line[start:stop] *)
slice(line, start, stop) ==
  IF start >= Len(line) \/ stop <= start THEN << >>
  ELSE SubSeq(line, start + 1, IF stop < Len(line) THEN stop ELSE Len(line))

(* str.strip() *)
RECURSIVE lstrip(_)
lstrip(s) ==
  IF s # << >> /\ Head(s) \in Whitespace THEN lstrip(Tail(s)) ELSE s
RECURSIVE rstrip(_)
rstrip(s) ==
  IF s # << >> /\ s[Len(s)] \in Whitespace
  THEN rstrip(SubSeq(s, 1, Len(s) - 1))
  ELSE s
strip(s) == rstrip(lstrip(s))

(* marker in line *)
contains(line, marker) ==
  \E i \in 0..(Len(line) - Len(marker)) :
    SubSeq(line, i + 1, i + Len(marker)) = marker

(* str.startswith *)
startswith(s, prefix) ==
  Len(s) >= Len(prefix) /\ SubSeq(s, 1, Len(prefix)) = prefix

RECURSIVE digits_value(_)
digits_value(s) ==
  IF s = << >> THEN 0
  ELSE digits_value(SubSeq(s, 1, Len(s) - 1)) * 10 + (IndexIn(Digits, s[Len(s)]) - 1)

(* a sign and the rest of a stripped numeral *)
negative(s) == s # << >> /\ s[1] = "-"
unsigned(s) == IF s # << >> /\ s[1] \in {"+", "-"} THEN Tail(s) ELSE s
all_digits(s) == \A i \in DOMAIN s : s[i] \in Range(Digits)

(* int(x) of a text: is_int(x) unless it raises ValueError *)
is_int(x) == unsigned(strip(x)) # << >> /\ all_digits(unsigned(strip(x)))
int(x) ==
  (IF negative(strip(x)) THEN -1 ELSE 1) * digits_value(unsigned(strip(x)))

(* float(x) of a text, as its whole part and the digits of its fraction:   *)
(* is_float(x) unless it raises ValueError                                 *)
point(s) ==
  IF \E i \in DOMAIN s : s[i] = "."
  THEN CHOOSE i \in DOMAIN s : s[i] = "." /\ \A j \in 1..(i - 1) : s[j] # "."
  ELSE Len(s) + 1
is_float(x) ==
  LET s == unsigned(strip(x))
      whole == SubSeq(s, 1, point(s) - 1)
      fraction == SubSeq(s, point(s) + 1, Len(s))
  IN  whole \o fraction # << >> /\ all_digits(whole \o fraction)
float(x) ==
  LET s == unsigned(strip(x))
  IN  [whole |-> (IF negative(strip(x)) THEN -1 ELSE 1)
                 * digits_value(SubSeq(s, 1, point(s) - 1)),
       fraction |-> SubSeq(s, point(s) + 1, Len(s))]

(* int(x) of a float truncates *)
truncated(x) == x.whole

(* whether datetime(...) takes the arguments: it raises ValueError if not *)
is_datetime(y, month, day, hour, minute, s) ==
  LET is_leap == y % 4 = 0 /\ (y % 100 # 0 \/ y % 400 = 0)
      days_in_month == << 31, IF is_leap THEN 29 ELSE 28, 31, 30, 31, 30,
                          31, 31, 30, 31, 30, 31 >>
  IN  /\ y \in 1..9999
      /\ month \in 1..12
      /\ day \in 1..days_in_month[month]
      /\ hour \in 0..23
      /\ minute \in 0..59
      /\ s \in 0..59

(* dict.get(key, default) of the header_data gathered so far *)
get(d, key, default) == IF key \in DOMAIN d THEN d[key] ELSE default

(* one pass of the loop of _parse_header over a line before the end mark *)
header_line(line, header_data) ==
  IF contains(line, chars("RINEX VERSION / TYPE"))
  THEN LET version_str == strip(slice(line, 0, 9))
           file_type == strip(slice(line, 20, 21))
           sat_system == strip(slice(line, 40, 41))
       IN  ( "version" :>
               ( IF startswith(version_str, << "2" >>) THEN M("RinexVersion", "VERSION_2")
                 ELSE IF startswith(version_str, << "3" >>) THEN M("RinexVersion", "VERSION_3")
                 ELSE IF startswith(version_str, << "4" >>) THEN M("RinexVersion", "VERSION_4")
                 ELSE M("RinexVersion", "VERSION_3") )
             @@ "file_type" :> file_type
             @@ "satellite_system" :>
               ( IF sat_system \in { << "G" >>, << >> } THEN M("SatelliteSystem", "GPS")
                 ELSE IF sat_system = << "R" >> THEN M("SatelliteSystem", "GLONASS")
                 ELSE IF sat_system = << "E" >> THEN M("SatelliteSystem", "GALILEO")
                 ELSE IF sat_system = << "C" >> THEN M("SatelliteSystem", "BEIDOU")
                 ELSE M("SatelliteSystem", "GPS") ) )
           @@ header_data
  ELSE IF contains(line, chars("PGM / RUN BY / DATE"))
  THEN ( "program" :> strip(slice(line, 0, 20))
         @@ "run_by" :> strip(slice(line, 20, 40))
         @@ "date" :> strip(slice(line, 40, 60)) )
       @@ header_data
  ELSE IF contains(line, chars("LEAP SECONDS"))
  THEN ( "leap_seconds" :>
           ( IF is_int(strip(slice(line, 0, 6)))
             THEN int(strip(slice(line, 0, 6)))
             ELSE 18 ) )
       @@ header_data
  ELSE header_data

(* the loop of _parse_header from the line after the i-th: the data        *)
(* gathered and the number of lines up to and with the end mark, 0 if no   *)
(* line has it                                                             *)
RECURSIVE header_from(_, _, _)
header_from(lines, i, header_data) ==
  IF i >= Len(lines) THEN [header_data |-> header_data, line_idx |-> 0]
  ELSE IF contains(lines[i + 1], chars("END OF HEADER"))
  THEN [header_data |-> header_data, line_idx |-> i + 1]
  ELSE header_from(lines, i + 1, header_line(lines[i + 1], header_data))

(* the fields of RinexHeader that the parser sets; the others keep their   *)
(* defaults and are read nowhere                                           *)
RinexHeader(header_data) ==
  Obj("RinexHeader",
      [version |-> get(header_data, "version", M("RinexVersion", "VERSION_3")),
       file_type |-> get(header_data, "file_type", << "N" >>),
       satellite_system |->
         get(header_data, "satellite_system", M("SatelliteSystem", "GPS")),
       program |-> get(header_data, "program", chars("Unknown")),
       run_by |-> get(header_data, "run_by", chars("Unknown")),
       date |-> get(header_data, "date", chars("Unknown")),
       leap_seconds |-> get(header_data, "leap_seconds", 18)])

(* _parse_header(lines): self.header and the returned line number *)
parse_header(lines) ==
  LET parsed == header_from(lines, 0, << >>)
  IN  [header |-> RinexHeader(parsed.header_data), line_idx |-> parsed.line_idx]

EphemerisRecord(satellite_system, satellite_number, toc, toe, validity_start, validity_end) ==
  Obj("EphemerisRecord",
      [satellite_system |-> satellite_system,
       satellite_number |-> satellite_number,
       toc |-> toc, toe |-> toe,
       validity_start |-> validity_start, validity_end |-> validity_end,
       health |-> 0])

(* the record of a satellite and its time of clock *)
record_at(satellite_system, sat_num, toc) ==
  LET toe == toc
      validity_start == toc - 2 * 3600
      validity_end == toc + 4 * 3600
  IN  EphemerisRecord(satellite_system, sat_num, toc, toe,
                      validity_start, validity_end)

(* datetime(...) of the numbers read, None when it raises *)
record_of(satellite_system, sat_num, toc_year, month, day, hour, minute, s) ==
  IF is_datetime(toc_year, month, day, hour, minute, s)
  THEN record_at(satellite_system, sat_num,
                 datetime(toc_year, month, day, hour, minute, s))
  ELSE None

(* the record built from the fields of a first line, None when one of the  *)
(* conversions raises                                                      *)
nav_record(satellite_system, sat_num, toc_year, month, day, hour, minute, s) ==
  IF /\ is_int(sat_num) /\ is_int(month) /\ is_int(day) /\ is_int(hour)
     /\ is_int(minute) /\ is_float(s)
  THEN record_of(satellite_system, int(sat_num), toc_year, int(month),
                 int(day), int(hour), int(minute), truncated(float(s)))
  ELSE None

parse_v2_nav_record(self, record_lines) ==
  IF Len(record_lines) < 8 THEN None
  ELSE LET first_line == record_lines[1]
           two_digits == slice(first_line, 3, 5)
       IN  IF ~is_int(slice(first_line, 0, 2)) \/ ~is_int(two_digits) THEN None
           ELSE nav_record(self.f.header.f.satellite_system,
                           slice(first_line, 0, 2),
                           IF int(two_digits) < 80
                           THEN int(two_digits) + 2000
                           ELSE int(two_digits) + 1900,
                           slice(first_line, 6, 8), slice(first_line, 9, 11),
                           slice(first_line, 12, 14), slice(first_line, 15, 17),
                           slice(first_line, 18, 22))

parse_v3_nav_record(self, record_lines) ==
  IF Len(record_lines) < 8 THEN None
  ELSE LET first_line == record_lines[1]
           sat_id == strip(slice(first_line, 0, 3))
           sys_map == "G" :> M("SatelliteSystem", "GPS")
                      @@ "R" :> M("SatelliteSystem", "GLONASS")
                      @@ "E" :> M("SatelliteSystem", "GALILEO")
                      @@ "C" :> M("SatelliteSystem", "BEIDOU")
                      @@ "J" :> M("SatelliteSystem", "QZSS")
                      @@ "I" :> M("SatelliteSystem", "IRNSS")
                      @@ "S" :> M("SatelliteSystem", "SBAS")
           satellite_system ==
             IF Len(sat_id) >= 2 /\ sat_id[1] \in DOMAIN sys_map
             THEN sys_map[sat_id[1]]
             ELSE self.f.header.f.satellite_system
           sat_num == IF Len(sat_id) >= 2 THEN Tail(sat_id) ELSE sat_id
       IN  IF ~is_int(sat_num) \/ ~is_int(slice(first_line, 4, 8)) THEN None
           ELSE nav_record(satellite_system, sat_num,
                           int(slice(first_line, 4, 8)),
                           slice(first_line, 9, 11), slice(first_line, 12, 14),
                           slice(first_line, 15, 17), slice(first_line, 18, 20),
                           slice(first_line, 21, 23))

(* if record: self.ephemeris_records.append(record) *)
appended(self, record) ==
  IF record # None
  THEN Obj("RinexParser", [self.f EXCEPT !.ephemeris_records = Append(@, record)])
  ELSE self

(* the loop of _parse_navigation_data from line i: self.ephemeris_records  *)
(* when it ends                                                            *)
RECURSIVE navigation_data_from(_, _, _)
navigation_data_from(self, data_lines, i) ==
  IF i >= Len(data_lines) THEN self.f.ephemeris_records
  ELSE IF strip(data_lines[i + 1]) = << >>
  THEN navigation_data_from(self, data_lines, i + 1)
  ELSE navigation_data_from(
         appended(self,
                  IF self.f.header.f.version \in { M("RinexVersion", "VERSION_2") }
                  THEN parse_v2_nav_record(self, slice(data_lines, i, i + 8))
                  ELSE parse_v3_nav_record(self, slice(data_lines, i, i + 8))),
         data_lines, i + 8)

parse_navigation_data(self, data_lines) == navigation_data_from(self, data_lines, 0)

(* min(...) and max(...) over the records *)
min_of(S) == CHOOSE x \in S : \A y \in S : x <= y
max_of(S) == CHOOSE x \in S : \A y \in S : y <= x

(* _calculate_validity_range(): self.validity_range *)
calculate_validity_range(ephemeris_records) ==
  IF ephemeris_records = << >> THEN None
  ELSE LET min_time == min_of({ record.f.validity_start : record \in Range(ephemeris_records) })
           max_time == max_of({ record.f.validity_end : record \in Range(ephemeris_records) })
       IN  Tuple(<< min_time, max_time >>)

(* _create_result_dict(); list(set(...)) has no order of its own, so the   *)
(* satellite systems are a set                                             *)
create_result_dict(self) ==
  LET header == self.f.header.f
      records == self.f.ephemeris_records
  IN  Dict(<< Item("file_valid", Bool(TRUE)),
              Item("header",
                   Dict(<< Item("version", EnumMembers.RinexVersion[header.version.m]),
                           Item("file_type", header.file_type),
                           Item("satellite_system",
                                EnumMembers.SatelliteSystem[header.satellite_system.m]),
                           Item("program", header.program),
                           Item("run_by", header.run_by),
                           Item("date", header.date),
                           Item("leap_seconds", header.leap_seconds) >>)),
              Item("ephemeris_count", Len(records)),
              Item("satellite_systems",
                   { EnumMembers.SatelliteSystem[record.f.satellite_system.m] :
                       record \in Range(records) }),
              Item("satellite_count",
                   Cardinality({ << record.f.satellite_system, record.f.satellite_number >> :
                                   record \in Range(records) })),
              Item("validity_range", self.f.validity_range),
              Item("records",
                   [ i \in DOMAIN records |->
                       Dict(<< Item("satellite_system",
                                    EnumMembers.SatelliteSystem[records[i].f.satellite_system.m]),
                               Item("satellite_number", records[i].f.satellite_number),
                               Item("toc", records[i].f.toc),
                               Item("toe", records[i].f.toe),
                               Item("validity_start", records[i].f.validity_start),
                               Item("validity_end", records[i].f.validity_end),
                               Item("health", records[i].f.health) >>) ]) >>)

(* the files on the disk *)
two(n) == << Digits[((n \div 10) % 10) + 1], Digits[(n % 10) + 1] >>
four(n) == two(n \div 100) \o two(n % 100)
right(n) == << IF n < 10 THEN " " ELSE Digits[(n \div 10) + 1], Digits[(n % 10) + 1] >>
ljust(s, width) == s \o [ i \in 1..(width - Len(s)) |-> " " ]

version_line(version, file_type, sat_system) ==
  ljust(ljust(ljust(<< " ", " ", " ", " ", " " >> \o version, 20) \o file_type, 40)
        \o sat_system, 60)
  \o chars("RINEX VERSION / TYPE") \o << "\n" >>
program_line ==
  ljust(ljust(ljust(<< "c", "n", "v" >>, 20) \o << "i", "g", "s" >>, 40)
        \o << "2", "0", "2", "4" >>, 60)
  \o chars("PGM / RUN BY / DATE") \o << "\n" >>
leap_seconds_line(n) ==
  ljust(<< " ", " ", " ", " " >> \o two(n), 60) \o chars("LEAP SECONDS") \o << "\n" >>
end_of_header == ljust(<< >>, 60) \o chars("END OF HEADER") \o << "\n" >>
blank_line == << "\n" >>
comment_line == << "c", "o", "m", "m", "e", "n", "t", "\n" >>
orbit_line == << " ", " ", " ", " ", "1", ".", "0", "D", "+", "0", "0", "\n" >>

(* a navigation record of version 3 and of version 2: the line of the      *)
(* satellite and its time of clock, then lines - 1 lines of orbit values   *)
v3_record(sat_id, y, month, day, hour, minute, s, lines) ==
  << sat_id \o << " " >> \o four(y) \o << " " >> \o two(month) \o << " " >>
     \o two(day) \o << " " >> \o two(hour) \o << " " >> \o two(minute)
     \o << " " >> \o two(s) \o << "-", "1", ".", "0", "D", "-", "0", "4", "\n" >> >>
  \o [ i \in 1..(lines - 1) |-> orbit_line ]
v2_record(sat_num, y, month, day, hour, minute, s, lines) ==
  << right(sat_num) \o << " " >> \o two(y) \o << " " >> \o right(month)
     \o << " " >> \o right(day) \o << " " >> \o right(hour) \o << " " >>
     \o right(minute) \o << " " >> \o right(s)
     \o << ".", "0", "-", "1", ".", "0", "D", "-", "0", "4", "\n" >> >>
  \o [ i \in 1..(lines - 1) |-> orbit_line ]

v3_header(file_type) ==
  << version_line(<< "3", ".", "0", "4" >>, file_type, << "G" >>),
     program_line, leap_seconds_line(18), end_of_header >>

RinexFiles ==
  "one.rnx" :> ( v3_header(<< "N" >>)
                 \o v3_record(<< "G", "0", "1" >>, 2024, 1, 1, 0, 0, 0, 8) )
  @@ "two.rnx" :> ( v3_header(<< "N" >>)
                    \o v3_record(<< "G", "0", "2" >>, 2024, 1, 1, 2, 0, 0, 8)
                    \o << blank_line >>
                    \o v3_record(<< "E", "0", "5" >>, 2023, 12, 31, 22, 0, 0, 8) )
  @@ "empty.rnx" :> v3_header(<< "N" >>)
  @@ "obs.rnx" :> ( v3_header(<< "O" >>)
                    \o v3_record(<< "G", "0", "1" >>, 2024, 1, 1, 0, 0, 0, 8) )
  @@ "v2.99n" :> ( << version_line(<< "2", ".", "1", "1" >>, << "N" >>, << >>),
                      end_of_header >>
                   \o v2_record(7, 99, 12, 31, 23, 59, 59, 8) )
  @@ "bad.rnx" :> ( v3_header(<< "N" >>)
                    \o v3_record(<< "G", "0", "3" >>, 2024, 13, 1, 0, 0, 0, 8)
                    \o v3_record(<< "G", "0", "3" >>, 2024, 1, 2, 0, 0, 0, 8) )
  @@ "short.rnx" :> ( v3_header(<< "N" >>)
                      \o v3_record(<< "G", "0", "4" >>, 2024, 1, 1, 0, 0, 0, 7) )
  @@ "shortthen.rnx" :> ( v3_header(<< "N" >>)
                          \o v3_record(<< "G", "0", "4" >>, 2024, 1, 1, 0, 0, 0, 7)
                          \o v3_record(<< "G", "0", "5" >>, 2024, 1, 1, 2, 0, 0, 8) )
  @@ "extra.rnx" :> ( v3_header(<< "N" >>)
                      \o << orbit_line >>
                      \o v3_record(<< "G", "0", "6" >>, 2024, 1, 1, 4, 0, 0, 8) )
  @@ "line11.rnx" :> ( [ i \in 1..10 |-> comment_line ] \o v3_header(<< "N" >>) )
  @@ "line12.rnx" :> ( [ i \in 1..11 |-> comment_line ] \o v3_header(<< "N" >>) )
  @@ "endfirst.rnx" :> ( << end_of_header >> \o v3_header(<< "N" >>) )
  @@ "both.rnx" :> << comment_line,
                      chars("RINEX VERSION / TYPE") \o << " " >>
                        \o chars("END OF HEADER") \o << "\n" >> >>
  @@ "nomark.rnx" :> << comment_line, orbit_line >>

(* paths that exist and that open() raises for, as a directory does *)
Unreadable == { "locked.rnx" }

(* os.path.exists(file_path) *)
exists(path) == path \in DOMAIN RinexFiles \cup Unreadable

Paths == DOMAIN RinexFiles \cup Unreadable \cup { "missing.rnx" }

(* raise RinexParseError(message) *)
RinexParseError(message) ==
  [k |-> "raise", exc |-> "RinexParseError", message |-> message]

(* parse_file(file_path) on a parser: the parser afterwards and what the   *)
(* call returned or raised.  Its steps, last to first: the result is made, *)
(* the validity range calculated, the data lines parsed if the header says *)
(* navigation file, the header parsed.                                     *)
result_made(self) == [self |-> self, returned |-> create_result_dict(self)]

range_calculated(self) ==
  result_made(
    Obj("RinexParser",
        [self.f EXCEPT !.validity_range =
           calculate_validity_range(self.f.ephemeris_records)]))

data_parsed(self, data_lines) ==
  range_calculated(
    IF startswith(self.f.header.f.file_type, << "N" >>)
    THEN Obj("RinexParser",
             [self.f EXCEPT !.ephemeris_records =
                parse_navigation_data(self, data_lines)])
    ELSE self)

header_parsed(self, lines, parsed) ==
  data_parsed(Obj("RinexParser", [self.f EXCEPT !.header = parsed.header]),
              slice(lines, parsed.line_idx, Len(lines)))

parsed_file(self, lines) == header_parsed(self, lines, parse_header(lines))

parse_file(self, path) ==
  IF ~exists(path)
  THEN [self |-> self, returned |-> RinexParseError("File not found")]
  ELSE IF path \in Unreadable
  THEN [self |-> self, returned |-> RinexParseError("Failed to parse RINEX file")]
  ELSE parsed_file(self, RinexFiles[path])

(* parse_rinex_file(file_path) *)
parse_rinex_file(path) == parse_file(RinexParser, path).returned

(* RinexParser.quick_parse_validity(file_path) *)
validity_or_none(parsed) ==
  IF parsed.k = "raise" THEN None ELSE Get(parsed, "validity_range")
quick_parse_validity(path) ==
  validity_or_none(parse_file(RinexParser, path).returned)

(* get_ephemeris_validity_range(file_path) *)
get_ephemeris_validity_range(path) == quick_parse_validity(path)

(* the loop of validate_rinex_file from line i of the file *)
RECURSIVE validate_from(_, _)
RECURSIVE validate_from_ten(_, _)
validate_from_ten(lines, i) ==
  IF i >= Len(lines) \/ i >= 10 THEN FALSE
  ELSE IF contains(lines[i + 1], chars("RINEX VERSION / TYPE")) THEN TRUE
  ELSE IF contains(lines[i + 1], chars("END OF HEADER")) THEN FALSE
  ELSE validate_from_ten(lines, i + 1)
validate_from(lines, i) ==
  IF i >= Len(lines) \/ i > 10 THEN FALSE
  ELSE IF contains(lines[i + 1], chars("RINEX VERSION / TYPE")) THEN TRUE
  ELSE IF contains(lines[i + 1], chars("END OF HEADER")) THEN FALSE
  ELSE validate_from(lines, i + 1)

(* RinexParser.validate_rinex_file(file_path) *)
validate_rinex_file(path) ==
  IF ~exists(path) THEN Bool(FALSE)
  ELSE IF path \in Unreadable THEN Bool(FALSE)
  ELSE Bool(validate_from(RinexFiles[path], 0))

(* is_valid_rinex_file(file_path) *)
is_valid_rinex_file(path) == validate_rinex_file(path)

(* the most records a parser holds when it is asked to parse once more *)
MaxRecords == 2

(* A caller makes a parser or parses a file, with the parser it has or     *)
(* through one of the module's functions, takes what the call returns or   *)
(* raises, and may call again.                                             *)
NextRinex ==
  \/ /\ call = NoCall
     /\ parser # RinexParser
     /\ call' = [fn |-> "RinexParser", args |-> << >>]
     /\ parser' = RinexParser
     /\ returned' = None
     /\ UNCHANGED << config, data, result, op, file_path >>
     /\ OthersUnchanged
     /\ TabsUnchanged
  \/ \E path \in Paths :
       /\ call = NoCall
       /\ Len(parser.f.ephemeris_records) <= MaxRecords
       /\ call' = [fn |-> "parse_file", args |-> << path >>]
       /\ \E parsed \in { parse_file(parser, path) } :
            /\ parser' = parsed.self
            /\ returned' = parsed.returned
       /\ UNCHANGED << config, data, result, op, file_path >>
       /\ OthersUnchanged
       /\ TabsUnchanged
  \/ \E path \in Paths :
       /\ call = NoCall
       /\ call' = [fn |-> "parse_rinex_file", args |-> << path >>]
       /\ returned' = parse_rinex_file(path)
       /\ DocumentUnchanged
  \/ \E path \in Paths :
       /\ call = NoCall
       /\ call' = [fn |-> "get_ephemeris_validity_range", args |-> << path >>]
       /\ returned' = get_ephemeris_validity_range(path)
       /\ DocumentUnchanged
  \/ \E path \in Paths :
       /\ call = NoCall
       /\ call' = [fn |-> "is_valid_rinex_file", args |-> << path >>]
       /\ returned' = is_valid_rinex_file(path)
       /\ DocumentUnchanged
  \/ /\ call # NoCall
     /\ call' = NoCall
     /\ returned' = None
     /\ DocumentUnchanged

SpecRinex == InitTime /\ [][NextRinex]_vars

----------------------------------------------------------------------------
(* C20: for a parsed navigation file every record has validity_start =     *)
(* TOC - 2 h, validity_end = TOC + 4 h and TOE = TOC, the validity range   *)
(* of the result is [min TOC - 2 h, max TOC + 4 h] over the records of the *)
(* file, and a file with no parsed record has the range None.              *)
FileParsed ==
  call.fn \in { "parse_file", "parse_rinex_file" } /\ returned.k = "dict"

(* the records parsed from the lines of a file *)
RecordsOf(path) ==
  LET lines == RinexFiles[path]
      header == parse_header(lines)
      self == Obj("RinexParser", [RinexParser.f EXCEPT !.header = header.header])
  IN  IF startswith(header.header.f.file_type, << "N" >>)
      THEN parse_navigation_data(self, slice(lines, header.line_idx, Len(lines)))
      ELSE << >>

HasWindow(record) ==
  /\ Get(record, "validity_start") = Get(record, "toc") - 2 * 3600
  /\ Get(record, "validity_end") = Get(record, "toc") + 4 * 3600
  /\ Get(record, "toe") = Get(record, "toc")

RangeOver(tocs) ==
  IF tocs = {} THEN None
  ELSE Tuple(<< min_of(tocs) - 2 * 3600, max_of(tocs) + 4 * 3600 >>)

C20_ValidityRange ==
  FileParsed =>
    /\ \A i \in DOMAIN Get(returned, "records") : HasWindow(Get(returned, "records")[i])
    /\ Get(returned, "validity_range")
         = RangeOver({ record.f.toc : record \in Range(RecordsOf(call.args[1])) })

(* C20, the part that holds of every call: the windows of the records, and *)
(* the range over the records that the result lists, those of earlier      *)
(* files with them.                                                        *)
C20_RangeOfListedRecords ==
  FileParsed =>
    /\ \A i \in DOMAIN Get(returned, "records") : HasWindow(Get(returned, "records")[i])
    /\ Get(returned, "validity_range")
         = RangeOver({ Get(Get(returned, "records")[i], "toc") :
                         i \in DOMAIN Get(returned, "records") })

C20_ListedWitness ==
  /\ call = [fn |-> "parse_file", args |-> << "empty.rnx" >>]
  /\ returned.k = "dict"
  /\ Get(returned, "ephemeris_count") = 1
  /\ Get(returned, "validity_range")
       = Tuple(<< datetime(2023, 12, 31, 22, 0, 0), datetime(2024, 1, 1, 4, 0, 0) >>)

----------------------------------------------------------------------------
(* C21: a navigation record that fails to parse is skipped without raising *)
(* and parsing goes on, so that the parse of a file never aborts and every *)
(* well-formed 8-line record of the file is in the result, wherever        *)
(* malformed records, short records or extra lines stand in the data.      *)

(* a parser that has read the header of the file, and the data lines *)
Headed(path) ==
  Obj("RinexParser",
      [RinexParser.f EXCEPT !.header = parse_header(RinexFiles[path]).header])
DataLines(path) ==
  slice(RinexFiles[path], parse_header(RinexFiles[path]).line_idx,
        Len(RinexFiles[path]))

(* the record that the lines from the i-th on give, None if they give none *)
RecordAt(path, i) ==
  IF Headed(path).f.header.f.version = M("RinexVersion", "VERSION_2")
  THEN parse_v2_nav_record(Headed(path), slice(DataLines(path), i - 1, i + 7))
  ELSE parse_v3_nav_record(Headed(path), slice(DataLines(path), i - 1, i + 7))

(* a well-formed 8-line record starts at line i: the line of a satellite   *)
(* and its time of clock, then seven lines that start no record            *)
WellFormedAt(path, i) ==
  /\ i + 7 <= Len(DataLines(path))
  /\ RecordAt(path, i) # None
  /\ \A j \in (i + 1)..(i + 7) :
       /\ strip(DataLines(path)[j]) # << >>
       /\ RecordAt(path, j) = None

NavigationFileParsed ==
  /\ call.fn = "parse_rinex_file"
  /\ call.args[1] \in DOMAIN RinexFiles
  /\ startswith(Headed(call.args[1]).f.header.f.file_type, << "N" >>)

Listed(record) ==
  \E i \in DOMAIN Get(returned, "records") :
    /\ Get(Get(returned, "records")[i], "toc") = record.f.toc
    /\ Get(Get(returned, "records")[i], "satellite_number") = record.f.satellite_number
    /\ Get(Get(returned, "records")[i], "satellite_system")
         = EnumMembers.SatelliteSystem[record.f.satellite_system.m]

C21_EveryGoodRecord ==
  NavigationFileParsed =>
    /\ returned.k = "dict"
    /\ \A i \in DOMAIN DataLines(call.args[1]) :
         WellFormedAt(call.args[1], i) => Listed(RecordAt(call.args[1], i))

(* C21, the part that holds: the parse of a file that exists never raises, *)
(* whatever its data lines are, and a malformed record of 8 lines is       *)
(* skipped with the record after it in the result.                         *)
C21_NeverAborts ==
  ( call.fn \in { "parse_file", "parse_rinex_file" }
    /\ call.args[1] \in DOMAIN RinexFiles )
    => returned.k = "dict"

C21_SkippedWitness ==
  /\ call = [fn |-> "parse_rinex_file", args |-> << "bad.rnx" >>]
  /\ returned.k = "dict"
  /\ Get(returned, "ephemeris_count") = 1
  /\ WellFormedAt("bad.rnx", 9)
  /\ RecordAt("bad.rnx", 1) = None
  /\ Get(Get(returned, "records")[1], "toc") = datetime(2024, 1, 2, 0, 0, 0)

----------------------------------------------------------------------------
(* C22: what a parse_file call returns (header, records, record count,     *)
(* validity range) depends on the file alone: on a parser that has parsed  *)
(* before, the same or another file, or failed to, it is what a new        *)
(* RinexParser returns for the file.                                       *)
C22_ParseFileIndependent ==
  call.fn = "parse_file"
    => returned = parse_file(RinexParser, call.args[1]).returned

(* C22, the part that holds: the header of the result, and the whole       *)
(* result on a parser that holds no record.                                *)
C22_HeaderIndependent ==
  ( call.fn = "parse_file" /\ returned.k = "dict" )
    => Get(returned, "header")
         = Get(parse_file(RinexParser, call.args[1]).returned, "header")

C22_HeaderWitness ==
  /\ call = [fn |-> "parse_file", args |-> << "v2.99n" >>]
  /\ returned.k = "dict"
  /\ Get(returned, "ephemeris_count") = 2
  /\ Get(Get(returned, "header"), "version") = "2"
  /\ Get(Get(returned, "records")[1], "toc") = datetime(2024, 1, 1, 0, 0, 0)

----------------------------------------------------------------------------
(* C23: for a path that does not exist each of parse_file,                 *)
(* parse_rinex_file and get_ephemeris_validity_range reports a failure     *)
(* that differs from what it gives for a file that cannot be parsed and    *)
(* for a file without records: none returns empty data for a missing file. *)
EntryPoints == { "parse_file", "parse_rinex_file", "get_ephemeris_validity_range" }

MissingCalled == call.fn \in EntryPoints /\ ~exists(call.args[1])

(* what an entry point gives for a path, on a parser without records *)
Outcome(fn, path) ==
  IF fn = "get_ephemeris_validity_range"
  THEN get_ephemeris_validity_range(path)
  ELSE parse_rinex_file(path)

C23_MissingFileDistinct ==
  MissingCalled =>
    /\ returned.k = "raise"
    /\ \A path \in Paths : exists(path) => returned # Outcome(call.fn, path)

(* C23, the part that holds: parse_file and parse_rinex_file raise for a   *)
(* missing file, with a message that no existing path gives.               *)
C23_ParseFileNotFound ==
  ( MissingCalled /\ call.fn # "get_ephemeris_validity_range" ) =>
    /\ returned = RinexParseError("File not found")
    /\ \A path \in Paths : exists(path) => returned # Outcome(call.fn, path)

C23_NotFoundWitness ==
  /\ call = [fn |-> "parse_file", args |-> << "missing.rnx" >>]
  /\ returned = RinexParseError("File not found")
  /\ parser.f.ephemeris_records # << >>
  /\ Outcome("parse_file", "locked.rnx") = RinexParseError("Failed to parse RINEX file")

----------------------------------------------------------------------------
(* C24: validate_rinex_file returns true if and only if one of the first   *)
(* 11 lines of the file contains "RINEX VERSION / TYPE" and no line before *)
(* it contains "END OF HEADER"; for a missing or unreadable file it        *)
(* returns false, and it never raises.                                     *)
ValidateCalled == call.fn = "is_valid_rinex_file"

HasVersionBeforeEnd(lines) ==
  \E i \in 1..11 :
    /\ i <= Len(lines)
    /\ contains(lines[i], chars("RINEX VERSION / TYPE"))
    /\ \A j \in 1..(i - 1) : ~contains(lines[j], chars("END OF HEADER"))

C24_ValidRinexFile ==
  ValidateCalled =>
    /\ returned.k = "bool"
    /\ returned.b <=> ( /\ call.args[1] \in DOMAIN RinexFiles
                        /\ HasVersionBeforeEnd(RinexFiles[call.args[1]]) )

C24_Witness ==
  /\ call = [fn |-> "is_valid_rinex_file", args |-> << "line11.rnx" >>]
  /\ returned = Bool(TRUE)
  /\ is_valid_rinex_file("line12.rnx") = Bool(FALSE)
  /\ is_valid_rinex_file("endfirst.rnx") = Bool(FALSE)
  /\ is_valid_rinex_file("locked.rnx") = Bool(FALSE)


----------------------------------------------------------------------------
(* The document window and the template manager: gui/main_window.py and    *)
(* core/config/templates.py.  A configuration is an object of the heap;    *)
(* the window, the tabs and built_in_templates hold references to it.      *)

MaxBackups == 2   \* the longest run of ".backup" suffixes written

TemplateNames == { "Urban Navigation", "Custom" }
Replies == { "Save", "Discard", "Cancel" }
NoPath == File("", 0)

(* the objects some name still refers to *)
Live(w, ret) ==
  { built_in_templates[name].id : name \in DOMAIN built_in_templates }
  \cup { w.config.id, w.tabs.id }
  \cup (IF ret.k = "ref" THEN { ret.id } ELSE {})

collected(h, live) == [ id \in DOMAIN h |-> IF id \in live THEN h[id] ELSE Free ]

(* the place a new object takes *)
fresh(h, live) == CHOOSE id \in DOMAIN h : id \notin live /\ \A j \in 1..(id - 1) : j \in live

Written(files, path, content) ==
  [ p \in DOMAIN files \cup { path } |-> IF p = path THEN content ELSE files[p] ]

Removed(files, path) == [ p \in DOMAIN files \ { path } |-> files[p] ]

(* MainWindow.save_to_file: the failure of to_dict or of the write is      *)
(* reported and leaves the window as it was                                *)
saved_to_file(w, d, config_dict, path) ==
  IF config_dict.k = "raise" THEN [window |-> w, disk |-> d]
  ELSE [window |-> [w EXCEPT !.current_file = path, !.is_modified = FALSE],
        disk |-> [d EXCEPT !.configs = Written(@, path, config_dict)]]

(* MainWindow.save_config_as: the file dialog gives a path or nothing *)
save_config_as(w, d, config_dict, chosen) ==
  IF chosen # NoPath THEN saved_to_file(w, d, config_dict, chosen)
  ELSE [window |-> w, disk |-> d]

(* MainWindow.save_config *)
save_config(w, d, config_dict, chosen) ==
  IF w.current_file # None THEN saved_to_file(w, d, config_dict, w.current_file)
  ELSE save_config_as(w, d, config_dict, chosen)

(* MainWindow.check_save_changes: whether it is safe to go on, and what    *)
(* saving left behind.  The question is put when the document is modified. *)
check_save_changes(w, d, h, reply, chosen) ==
  IF ~w.is_modified
  THEN [ok |-> TRUE, window |-> w, disk |-> d]
  ELSE IF reply = "Save"
       THEN \* True if the save was successful
            LET s == save_config(w, d, to_dict(h[w.config.id]), chosen)
            IN  [ok |-> ~s.window.is_modified, window |-> s.window, disk |-> s.disk]
       ELSE [ok |-> reply = "Discard", window |-> w, disk |-> d]

SaveAsChoices == { NoPath, File("config.json", 0) }

(* the window, the files and the heap after a handler: what it left of    *)
(* the heap is what is still referred to                                   *)
Left(w, d, h) ==
  /\ window' = w
  /\ disk' = d
  /\ heap' = collected(h, Live(w, returned))
  /\ UNCHANGED << config, data, result, op, file_path, call, returned, parser,
                  workflow_manager, integration >>
  /\ TabsUnchanged

(* MainWindow.new_config *)
new_config ==
  \E reply \in Replies, chosen \in SaveAsChoices :
    \E c \in { check_save_changes(window, disk, heap, reply, chosen) } :
      /\ ~window.closed
      /\ IF c.ok
         THEN \E id \in { fresh(heap, Live(window, returned)) } :
                Left([c.window EXCEPT !.config = Ref(id), !.current_file = None,
                                      !.is_modified = FALSE],
                     c.disk, [heap EXCEPT ![id] = default_config])
         ELSE Left(c.window, c.disk, heap)

(* MainWindow.load_config: the file dialog gives a file of the directory   *)
(* or nothing; a failure of from_dict is reported and changes nothing      *)
open_config ==
  \E reply \in Replies, chosen \in SaveAsChoices :
    \E c \in { check_save_changes(window, disk, heap, reply, chosen) } :
      \E path \in DOMAIN c.disk.configs \cup { NoPath } :
        /\ ~window.closed
        /\ IF c.ok /\ path # NoPath
           THEN \E loaded \in { from_dict(c.disk.configs[path]) } :
                  IF loaded.k = "raise" THEN Left(c.window, c.disk, heap)
                  ELSE \E id \in { fresh(heap, Live(window, returned)) } :
                         Left([c.window EXCEPT !.config = Ref(id), !.current_file = path,
                                               !.is_modified = FALSE],
                              c.disk, [heap EXCEPT ![id] = loaded])
           ELSE Left(c.window, c.disk, heap)

(* MainWindow.save_config from the menu *)
save_document ==
  \E chosen \in SaveAsChoices :
    \E s \in { save_config(window, disk, to_dict(heap[window.config.id]), chosen) } :
      /\ ~window.closed
      /\ Left(s.window, s.disk, heap)

backup_path(path) == File(path.name, path.backups + 1)

(* MainWindow.auto_save, on the timer *)
auto_save ==
  /\ ~window.closed
  /\ IF window.is_modified /\ window.current_file # None
     THEN /\ window.current_file.backups < MaxBackups
          /\ \E s \in { saved_to_file(window, disk, to_dict(heap[window.config.id]),
                                      backup_path(window.current_file)) } :
               Left(s.window, s.disk, heap)
     ELSE Left(window, disk, heap)

(* TemplateManager.get_template: the built-in object itself, or a new      *)
(* object read from {name}.json, or None                                   *)
get_template(d, h, live, name) ==
  IF name \in DOMAIN built_in_templates
  THEN [returned |-> built_in_templates[name], heap |-> h]
  ELSE IF name \in DOMAIN d.templates
       THEN LET loaded == from_dict(d.templates[name])
                id == fresh(h, live)
            IN  IF loaded.k = "raise" THEN [returned |-> None, heap |-> h]
                ELSE [returned |-> Ref(id), heap |-> [h EXCEPT ![id] = loaded]]
       ELSE [returned |-> None, heap |-> h]

(* TemplateDialog.load_template, which hands what get_template returned to *)
(* MainWindow.apply_template                                               *)
apply_template ==
  \E name \in TemplateNames, reply \in Replies, chosen \in SaveAsChoices :
    \E got \in { get_template(disk, heap, Live(window, returned), name) } :
      /\ ~window.closed
      /\ IF got.returned = None THEN Left(window, disk, heap)
         ELSE \E c \in { check_save_changes(window, disk, got.heap, reply, chosen) } :
                IF c.ok
                THEN Left([c.window EXCEPT !.config = got.returned, !.current_file = None,
                                           !.is_modified = TRUE],
                          c.disk, got.heap)
                ELSE Left(c.window, c.disk, got.heap)

(* MainWindow.closeEvent *)
closeEvent ==
  \E reply \in Replies, chosen \in SaveAsChoices :
    \E c \in { check_save_changes(window, disk, heap, reply, chosen) } :
      /\ ~window.closed
      /\ Left([c.window EXCEPT !.closed = c.ok], c.disk, heap)

Descriptions == { "Edited" }

(* BasicTab.update_config after the description was typed: it writes the   *)
(* configuration the tab was constructed with, and on_config_changed marks *)
(* the document modified                                                   *)
description_changed ==
  \E description \in Descriptions :
    /\ ~window.closed
    /\ Left([window EXCEPT !.is_modified = TRUE], disk,
            [heap EXCEPT ![window.tabs.id] = Assign(@, << "description" >>, Str(description))])

OutputNames == { "signalsim_output_20250605_100530.bin" }

(* ValidationEngine.apply_auto_fix("set_default_output_name", config) with *)
(* the document's configuration: config.output.name is set in place        *)
apply_auto_fix ==
  \E name \in OutputNames :
    /\ ~window.closed
    /\ Left(window, disk,
            [heap EXCEPT ![window.config.id] = Assign(@, << "output", "name" >>, Str(name))])

(* what a call of the template manager leaves *)
Called(fn, args, ret, d, h) ==
  /\ ~window.closed
  /\ call' = [fn |-> fn, args |-> args]
  /\ returned' = ret
  /\ disk' = d
  /\ heap' = collected(h, Live(window, ret))
  /\ UNCHANGED << config, data, result, op, file_path, parser, window,
                  workflow_manager, integration >>
  /\ TabsUnchanged

(* template_manager.get_template(name) *)
TemplateManager_get_template ==
  \E name \in TemplateNames :
    \E got \in { get_template(disk, heap, Live(window, None), name) } :
      Called("get_template", << name >>, got.returned, disk, got.heap)

(* TemplateManager.save_template(name, config): {name}.json is written     *)
(* whatever the name                                                       *)
template_saved(d, name, config_dict) ==
  IF config_dict.k = "raise" THEN [returned |-> Bool(FALSE), disk |-> d]
  ELSE [returned |-> Bool(TRUE),
        disk |-> [d EXCEPT !.templates = Written(@, name, config_dict)]]

(* template_manager.save_template(name, config), config being the         *)
(* document's configuration, a template or what the last call returned     *)
TemplateManager_save_template ==
  \E name \in TemplateNames :
    \E c \in { window.config, built_in_templates["Testing"] }
             \cup (IF returned.k = "ref" THEN { returned } ELSE {}) :
      \E s \in { template_saved(disk, name, to_dict(heap[c.id])) } :
        Called("save_template", << name, c >>, s.returned, s.disk, heap)

(* TemplateManager.delete_template *)
delete_template(d, name) ==
  IF name \in DOMAIN built_in_templates THEN [returned |-> Bool(FALSE), disk |-> d]
  ELSE IF name \in DOMAIN d.templates
       THEN [returned |-> Bool(TRUE), disk |-> [d EXCEPT !.templates = Removed(@, name)]]
       ELSE [returned |-> Bool(FALSE), disk |-> d]

TemplateManager_delete_template ==
  \E name \in TemplateNames :
    \E s \in { delete_template(disk, name) } :
      Called("delete_template", << name >>, s.returned, s.disk, heap)

NextDoc ==
  \/ new_config
  \/ open_config
  \/ save_document
  \/ auto_save
  \/ apply_template
  \/ closeEvent
  \/ description_changed

SpecDoc == InitTime /\ [][NextDoc]_vars

(* templates applied to the document, the document edited in place *)
NextApply ==
  \/ apply_template
  \/ description_changed
  \/ apply_auto_fix
  \/ TemplateManager_get_template

SpecApply == InitTime /\ [][NextApply]_vars

(* the calls of the template manager *)
NextTemplates ==
  \/ TemplateManager_get_template
  \/ TemplateManager_save_template
  \/ TemplateManager_delete_template

SpecTemplates == InitTime /\ [][NextTemplates]_vars


----------------------------------------------------------------------------
(* C25 *)

(* the values a template was created with, or saved with *)
OriginalTemplate(name) ==
  IF name \in DOMAIN built_in_templates THEN create_built_in_templates[name]
  ELSE from_dict(disk_at_start.templates[name])

(* what get_template(name) would return now: a configuration or None *)
TemplateNow(name) ==
  LET got == get_template(disk, heap, Live(window, returned), name)
  IN  IF got.returned = None THEN None ELSE got.heap[got.returned.id]

(* C25: whatever templates were applied and however the document was      *)
(* edited in place since, get_template(name) returns the template with     *)
(* the values it had at first, for the built-in and the custom templates.  *)
C25_TemplateKeepsValues ==
  \A name \in TemplateNames : TemplateNow(name) = OriginalTemplate(name)

(* The same, for the templates read from {name}.json: each call of         *)
(* get_template makes a new object of the file.                            *)
C25_CustomTemplateKeepsValues ==
  \A name \in TemplateNames \ DOMAIN built_in_templates :
    TemplateNow(name) = OriginalTemplate(name)

(* a custom template was applied and the document then edited in place *)
C25_CustomWitness ==
  /\ window.config \notin Range(built_in_templates) \cup { window.tabs }
  /\ heap[window.config.id].f.output.f.name \in { Str(n) : n \in OutputNames }

(* the document is a built-in template of the manager, edited in place *)
C25_SharedWitness ==
  /\ window.config = built_in_templates["Urban Navigation"]
  /\ heap[window.config.id] # create_built_in_templates["Urban Navigation"]


----------------------------------------------------------------------------
(* C26 *)

(* the names save_template has written a file for and delete_template has  *)
(* not removed since                                                       *)
SavedTemplates == DOMAIN disk.templates

(* C26: for every name save_template(name, c) returned True for,           *)
(* get_template(name) returns the configuration stored in {name}.json,     *)
(* from_dict(to_dict(c)), as long as the template is not saved again or    *)
(* deleted.                                                                *)
C26_SavedTemplateReturned ==
  \A name \in SavedTemplates : TemplateNow(name) = from_dict(disk.templates[name])

(* The same for the names that are not names of built-in templates. *)
C26_CustomTemplateReturned ==
  \A name \in SavedTemplates \ DOMAIN built_in_templates :
    TemplateNow(name) = from_dict(disk.templates[name])

(* a template saved under a new content and read back *)
C26_CustomWitness ==
  /\ call = [fn |-> "get_template", args |-> << "Custom" >>]
  /\ "Custom" \in SavedTemplates
  /\ disk.templates["Custom"] # disk_at_start.templates["Custom"]
  /\ returned.k = "ref"

(* save_template returned True for the name of a built-in template *)
C26_BuiltInWitness ==
  /\ call.fn = "save_template"
  /\ call.args[1] \in DOMAIN built_in_templates
  /\ returned = Bool(TRUE)


----------------------------------------------------------------------------
(* core/workflow/manager.py: WorkflowManager.  A validation callback is    *)
(* code of the window: it reports a status of its own step through         *)
(* update_step_status, or raises, or reports nothing.                      *)

StepIndex(step) == IndexIn(WorkflowStep, step)

(* a manager with no special case for the basic step *)
can_step_proceed_if_valid(step, status) == status = "VALID"

(* _can_step_proceed *)
can_step_proceed(step, status) ==
  IF step = "BASIC_INFO" THEN TRUE ELSE status = "VALID"

(* _reset_subsequent_steps: the steps from from_step on, from_step itself  *)
(* left out; details is not reset                                          *)
reset_subsequent_steps(statuses, from_step) ==
  [ step \in DOMAIN statuses |->
      IF StepIndex(step) >= StepIndex(from_step) /\ step # from_step
      THEN StepStatus("NOT_STARTED", "Waiting for prerequisites", statuses[step].details, FALSE, 0)
      ELSE statuses[step] ]

(* what a callback does *)
Reports(status, completion_percentage) ==
  [status |-> status, completion_percentage |-> completion_percentage]
Raises == [status |-> "raise", completion_percentage |-> 0]
Silent == [status |-> "", completion_percentage |-> 0]

RECURSIVE update_step_status(_, _, _, _, _, _, _, _)
RECURSIVE update_dependent_steps(_, _, _, _)
RECURSIVE trigger_validation(_, _, _, _)

(* _trigger_validation: the callback registered for the step, if any *)
trigger_validation(statuses, callbacks, step, outcome) ==
  IF step \notin callbacks \/ outcome = Silent THEN statuses
  ELSE IF outcome = Raises
       THEN update_step_status(statuses, callbacks, step, "ERROR", "Validation error", "", 0, Silent)
       ELSE update_step_status(statuses, callbacks, step, outcome.status, "", "",
                               outcome.completion_percentage, Silent)

(* _update_dependent_steps *)
update_dependent_steps(statuses, callbacks, updated_step, outcome) ==
  IF updated_step = "EPHEMERIS_LOADING"
  THEN IF statuses[updated_step].status = "VALID"
       THEN trigger_validation(statuses, callbacks, "TIME_VALIDATION", outcome)
       ELSE reset_subsequent_steps(statuses, "TIME_VALIDATION")
  ELSE IF updated_step = "TIME_VALIDATION" /\ statuses[updated_step].status # "VALID"
       THEN reset_subsequent_steps(statuses, "TRAJECTORY_CONFIG")
       ELSE statuses

(* update_step_status: step_statuses after the call *)
update_step_status(statuses, callbacks, step, status, message, details, completion_percentage, outcome) ==
  update_dependent_steps(
    [statuses EXCEPT ![step] = StepStatus(status, message, details,
                                           can_step_proceed(step, status),
                                           completion_percentage)],
    callbacks, step, outcome)

(* the statuses a caller reports: any status for the two steps other steps *)
(* depend on, valid or invalid for the basic step, valid for the rest      *)
StatusesOf(step) ==
  IF step \in { "EPHEMERIS_LOADING", "TIME_VALIDATION" } THEN ValidationStatus
  ELSE IF step = "BASIC_INFO" THEN { "VALID", "INVALID" }
  ELSE { "VALID" }
Completion(status) == IF status = "VALID" THEN 100 ELSE 0
Outcomes == { Silent, Raises } \cup { Reports(st, Completion(st)) : st \in ValidationStatus }

(* a callback runs when a valid ephemeris step triggers the time step *)
OutcomesOf(self, step, status) ==
  IF step = "EPHEMERIS_LOADING" /\ status = "VALID"
     /\ "TIME_VALIDATION" \in self.validation_callbacks
  THEN Outcomes ELSE { Silent }

WindowUnchanged ==
  /\ UNCHANGED << config, data, result, op, file_path, parser, heap, window, disk, integration >>
  /\ TabsUnchanged

(* workflow_manager.update_step_status(step, status, completion_percentage=...) *)
WorkflowManager_update_step_status ==
  \E step \in Range(WorkflowStep) :
    \E status \in StatusesOf(step) :
      \E outcome \in OutcomesOf(workflow_manager, step, status) :
        /\ call' = [fn |-> "update_step_status", args |-> << step, status >>]
        /\ returned' = None
        /\ workflow_manager' =
             [workflow_manager EXCEPT !.step_statuses =
                update_step_status(@, workflow_manager.validation_callbacks, step, status,
                                   "", "", Completion(status), outcome)]
        /\ WindowUnchanged

(* MainWindow.setup_workflow: register_validation_callback for the time step *)
register_validation_callback ==
  /\ call' = [fn |-> "register_validation_callback", args |-> << "TIME_VALIDATION" >>]
  /\ returned' = None
  /\ workflow_manager' =
       [workflow_manager EXCEPT !.validation_callbacks = @ \cup { "TIME_VALIDATION" }]
  /\ WindowUnchanged

(* reset_workflow *)
reset_workflow ==
  /\ call' = [fn |-> "reset_workflow", args |-> << >>]
  /\ returned' = None
  /\ workflow_manager' = [workflow_manager EXCEPT !.step_statuses = initialize_steps]
  /\ WindowUnchanged

NextWorkflow ==
  \/ WorkflowManager_update_step_status
  \/ register_validation_callback
  \/ reset_workflow

SpecWorkflow == InitTime /\ [][NextWorkflow]_vars


----------------------------------------------------------------------------
(* C27 *)

StatusOf(step) == workflow_manager.step_statuses[step]

(* the last call was update_step_status(step, s) with s other than VALID *)
UpdatedNotValid(step) ==
  /\ call.fn = "update_step_status"
  /\ call.args[1] = step
  /\ call.args[2] # "VALID"

IsReset(step) ==
  /\ StatusOf(step).status = "NOT_STARTED"
  /\ ~StatusOf(step).can_proceed
  /\ StatusOf(step).completion_percentage = 0

StepsFrom(step) == { st \in Range(WorkflowStep) : StepIndex(st) >= StepIndex(step) }
StepsAfter(step) == StepsFrom(step) \ { step }

(* C27: update_step_status(EPHEMERIS_LOADING, s) with s other than VALID   *)
(* leaves TIME_VALIDATION and every later step NOT_STARTED, unable to      *)
(* proceed and 0 percent complete; update_step_status(TIME_VALIDATION, s)  *)
(* with s other than VALID leaves every step after TIME_VALIDATION so.     *)
C27_DependentStepsReset ==
  /\ UpdatedNotValid("EPHEMERIS_LOADING") =>
       \A step \in StepsFrom("TIME_VALIDATION") : IsReset(step)
  /\ UpdatedNotValid("TIME_VALIDATION") =>
       \A step \in StepsAfter("TIME_VALIDATION") : IsReset(step)

(* What is reset: the steps after the one named in the code, which is      *)
(* itself left as it was.                                                  *)
C27_LaterStepsReset ==
  /\ UpdatedNotValid("EPHEMERIS_LOADING") =>
       \A step \in StepsAfter("TIME_VALIDATION") : IsReset(step)
  /\ UpdatedNotValid("TIME_VALIDATION") =>
       \A step \in StepsAfter("TRAJECTORY_CONFIG") : IsReset(step)

(* the ephemeris step became invalid, and the time step is still valid *)
C27_TimeKeptWitness ==
  /\ UpdatedNotValid("EPHEMERIS_LOADING")
  /\ StatusOf("TIME_VALIDATION").status = "VALID"
  /\ IsReset("OUTPUT_SETTINGS")

(* the time step became invalid, and the trajectory step is still valid *)
C27_TrajectoryKeptWitness ==
  /\ UpdatedNotValid("TIME_VALIDATION")
  /\ StatusOf("TRAJECTORY_CONFIG").status = "VALID"
  /\ IsReset("OUTPUT_SETTINGS")


----------------------------------------------------------------------------
(* C29 *)

(* C29: after any calls of update_step_status and reset_workflow, those    *)
(* made by a validation callback included, BASIC_INFO can proceed, and     *)
(* every other step can proceed exactly when its status is VALID.          *)
C29_CanProceed ==
  /\ StatusOf("BASIC_INFO").can_proceed
  /\ \A step \in Range(WorkflowStep) \ { "BASIC_INFO" } :
       StatusOf(step).can_proceed <=> StatusOf(step).status = "VALID"

(* the basic step reported invalid, the time step failed in its callback,  *)
(* a later step reset                                                      *)
C29_Witness ==
  /\ StatusOf("BASIC_INFO").status = "INVALID"
  /\ StatusOf("TIME_VALIDATION") = StepStatus("ERROR", "Validation error", "", FALSE, 0)
  /\ StatusOf("EPHEMERIS_LOADING").status = "VALID"
  /\ IsReset("POWER_CONFIG")
  /\ StatusOf("TRAJECTORY_CONFIG").status = "VALID"


----------------------------------------------------------------------------
(* C30 *)

(* auto_save fires on a modified document that has a current file *)
AutoSaves ==
  /\ auto_save
  /\ window.is_modified
  /\ window.current_file # None

(* the configuration written to current_file + ".backup" and nowhere else *)
BackupWritten ==
  disk' = [disk EXCEPT !.configs = Written(@, backup_path(window.current_file),
                                           to_dict(heap[window.config.id]))]

(* C30: an auto-save of a modified document with current file F writes the *)
(* configuration to F + ".backup" only and leaves current_file and         *)
(* is_modified as they were, so that the document still counts as modified *)
(* and new, load, apply-template and close still ask.                      *)
C30_AutoSaveLeavesDocument ==
  [][AutoSaves => (BackupWritten /\ window' = window)]_vars

(* What the auto-save does write: the backup file, and no other file. *)
C30_AutoSaveWritesBackup ==
  [][AutoSaves => BackupWritten]_vars

(* after an auto-save: the backup is the current file, nothing is modified *)
C30_BackupIsCurrentWitness ==
  /\ window.current_file = File("config.json", 1)
  /\ ~window.is_modified
  /\ File("config.json", 1) \in DOMAIN disk.configs
  /\ disk.configs[File("config.json", 1)] = to_dict(heap[window.config.id])


----------------------------------------------------------------------------
(* core/integration/ifdatagen.py: IFDataGenIntegration and its worker      *)
(* threads.  A worker runs IFDataGen.exe in a thread of its own: it emits  *)
(* finished once, which is delivered to on_generation_finished in the main *)
(* thread later, and then its thread ends.  temp_json counts the times the *)
(* configuration file was written.                                         *)

MaxWorkers == 2   \* the workers started in one run of the application

ExecutablePaths == { "IFDataGen.exe", "gone.exe" }
OnDisk == { "IFDataGen.exe" }

(* IFDataGenWorker(config_file, ifdatagen_path, working_dir) after start() *)
IFDataGenWorker ==
  [running |-> TRUE, stop_requested |-> FALSE, finished |-> "", delivered |-> FALSE]

Signal(name, success, message) == [signal |-> name, success |-> success, message |-> message]

(* is_available *)
is_available(self) ==
  self.ifdatagen_path # None /\ self.ifdatagen_path \in { Str(path) : path \in OnDisk }

(* no worker is taken for a running one *)
isRunning_never(self) == FALSE

(* self.worker and self.worker.isRunning() *)
isRunning(self) == self.worker # None /\ self.workers[self.worker.id].running

(* the window, the templates and the workflow are left alone *)
GeneratorOnly ==
  /\ UNCHANGED << config, data, result, op, file_path, parser, heap, window, disk,
                  workflow_manager >>
  /\ TabsUnchanged

emitting(self, signals) == [self EXCEPT !.emitted = signals]

(* set_ifdatagen_path *)
set_ifdatagen_path ==
  \E path \in ExecutablePaths :
    /\ call' = [fn |-> "set_ifdatagen_path", args |-> << Str(path) >>]
    /\ returned' = None
    /\ integration' = [integration EXCEPT !.ifdatagen_path = Str(path), !.emitted = << >>]
    /\ GeneratorOnly

(* generate_signals(config, output_dir): raised tells whether the try      *)
(* block failed before the configuration file was written                  *)
generate_signals(self, raised) ==
  IF ~is_available(self)
  THEN [self |-> emitting(self, << Signal("generation_finished", FALSE,
                                          "IFDataGen.exe not found. Please set the correct path.") >>),
        returned |-> Bool(FALSE)]
  ELSE IF isRunning(self)
       THEN [self |-> emitting(self, << Signal("generation_finished", FALSE,
                                               "Signal generation is already in progress") >>),
             returned |-> Bool(FALSE)]
       ELSE IF raised
            THEN [self |-> emitting(self, << Signal("generation_finished", FALSE,
                                                    "Error starting signal generation") >>),
                  returned |-> Bool(FALSE)]
            ELSE [self |-> [self EXCEPT !.temp_json = @ + 1,
                                        !.workers = Append(@, IFDataGenWorker),
                                        !.worker = Ref(Len(self.workers) + 1),
                                        !.emitted = << >>],
                  returned |-> Bool(TRUE)]

IFDataGenIntegration_generate_signals ==
  \E raised \in BOOLEAN :
    \E g \in { generate_signals(integration, raised) } :
      /\ Len(g.self.workers) <= MaxWorkers
      /\ call' = [fn |-> "generate_signals", args |-> << >>]
      /\ returned' = g.returned
      /\ integration' = g.self
      /\ GeneratorOnly

(* IFDataGenWorker.run comes to its end: finished is emitted, cancelled    *)
(* when a stop was requested, and waits for the main thread                *)
ran(worker, success) ==
  [worker EXCEPT !.finished = IF worker.stop_requested THEN "cancelled"
                              ELSE IF success THEN "completed" ELSE "failed"]

worker_run ==
  \E w \in DOMAIN integration.workers, success \in BOOLEAN :
    /\ integration.workers[w].running
    /\ integration.workers[w].finished = ""
    /\ integration' = [integration EXCEPT !.workers[w] = ran(@, success), !.emitted = << >>]
    /\ UNCHANGED << call, returned >>
    /\ GeneratorOnly

(* the thread of a worker ends after run has returned *)
worker_ends ==
  \E w \in DOMAIN integration.workers :
    /\ integration.workers[w].running
    /\ integration.workers[w].finished # ""
    /\ integration' = [integration EXCEPT !.workers[w].running = FALSE, !.emitted = << >>]
    /\ UNCHANGED << call, returned >>
    /\ GeneratorOnly

(* on_generation_finished, in the main thread: generation_finished goes on *)
on_generation_finished ==
  \E w \in DOMAIN integration.workers :
    /\ integration.workers[w].finished # ""
    /\ ~integration.workers[w].delivered
    /\ integration' =
         [integration EXCEPT !.workers[w].delivered = TRUE,
                             !.emitted = << Signal("generation_finished",
                                                   integration.workers[w].finished = "completed",
                                                   integration.workers[w].finished) >>]
    /\ UNCHANGED << call, returned >>
    /\ GeneratorOnly

(* stop_generation: worker.stop() and worker.wait(5000), within which the  *)
(* thread ends or does not                                                 *)
stop_generation(self, ended) ==
  IF isRunning(self)
  THEN LET stopped == [self.workers[self.worker.id] EXCEPT !.stop_requested = TRUE]
       IN  [self EXCEPT !.workers[self.worker.id] =
                          IF ended THEN [ran(stopped, FALSE) EXCEPT !.running = FALSE]
                          ELSE stopped,
                        !.emitted = << >>]
  ELSE emitting(self, << >>)

IFDataGenIntegration_stop_generation ==
  \E ended \in BOOLEAN :
    /\ ended => isRunning(integration)
    /\ call' = [fn |-> "stop_generation", args |-> << >>]
    /\ returned' = None
    /\ integration' = stop_generation(integration, ended)
    /\ GeneratorOnly

(* get_status *)
get_status ==
  /\ call' = [fn |-> "get_status", args |-> << >>]
  /\ returned' = IF isRunning(integration) THEN Str("Running") ELSE Str("Idle")
  /\ integration' = emitting(integration, << >>)
  /\ GeneratorOnly

NextGen ==
  \/ set_ifdatagen_path
  \/ IFDataGenIntegration_generate_signals
  \/ worker_run
  \/ worker_ends
  \/ on_generation_finished
  \/ IFDataGenIntegration_stop_generation
  \/ get_status

SpecGen == InitTime /\ [][NextGen]_vars

----------------------------------------------------------------------------
(* C28 *)

RunningWorkers == { w \in DOMAIN integration.workers : integration.workers[w].running }

(* a call of generate_signals while the worker of the integration runs *)
GenerateWhileRunning ==
  /\ IFDataGenIntegration_generate_signals
  /\ integration.worker # None
  /\ integration.worker.id \in RunningWorkers

Refused ==
  /\ returned' = Bool(FALSE)
  /\ Len(integration'.emitted) = 1
  /\ integration'.emitted[1].signal = "generation_finished"
  /\ ~integration'.emitted[1].success
  /\ integration'.workers = integration.workers
  /\ integration'.worker = integration.worker
  /\ integration'.temp_json = integration.temp_json

(* C28: whatever the order of generate_signals, stop_generation and the    *)
(* ends of the workers, at most one worker runs at a time, and a call of   *)
(* generate_signals made while a worker runs returns False, emits          *)
(* generation_finished(False, ...), starts no worker, does not write       *)
(* temp.json again and keeps the running worker.                           *)
C28_OneWorker ==
  /\ [](Cardinality(RunningWorkers) <= 1)
  /\ [][GenerateWhileRunning => Refused]_vars

(* a call was refused while the second worker of the run was running,      *)
(* after a stop that the worker outlived                                   *)
C28_Witness ==
  /\ call.fn = "generate_signals"
  /\ returned = Bool(FALSE)
  /\ integration.emitted =
       << Signal("generation_finished", FALSE, "Signal generation is already in progress") >>
  /\ integration.worker = Ref(2)
  /\ RunningWorkers = { 2 }
  /\ integration.workers[2].stop_requested
  /\ integration.temp_json = 2

====
